---- MODULE Spec2Model ----
(***************************************************************************)
(* Model of the sudoku-web-game puzzle engine (SudokuEngine and its        *)
(* worker script) and of SudokuValidator.                                  *)
(*                                                                         *)
(* A grid is a sequence of rows, each a sequence of cells, like the arrays  *)
(* of the JavaScript source.  Rows and columns are numbered from 0 as in   *)
(* the source; At(grid, row, col) reads grid[row][col] and Put writes it.  *)
(* 0 is the empty cell.                                                    *)
(***************************************************************************)
EXTENDS Integers, Sequences, FiniteSets, TLC

VARIABLES
    \* ---- in-process createPuzzleFromSolution (SudokuEngine) ----
    pzPc,            \* "idle" | "loop" | "done"
    pzConfig,        \* config argument
    pzDifficulty,    \* difficultyConfig argument
    pzSolution,      \* solution argument
    pzPuzzle,        \* local: puzzle
    pzIdx,           \* position of the for-of loop in cellPositions (0-based)
    pzRemoved,       \* local: removedCells
    \* ---- the worker script: self.onmessage ----
    wkPc,            \* "idle" | "waiting" (message delivered) | "answered"
    wkData,          \* event.data: {config, difficultyConfig}
    wkShuffles,      \* what the shuffleArray calls of fillBox produce, box by box
    wkPosted,        \* the message handed to self.postMessage
    \* ---- the worker's createPuzzleFromSolution on its own ----
    wpPc,            \* "idle" | "called" | "returned"
    wpConfig,        \* config argument
    wpDifficulty,    \* difficultyConfig argument
    wpSolution,      \* solution argument
    wpPuzzle,        \* the returned puzzle
    \* ---- in-process generateCompleteSolution / backtrackFill ----
    bfPc,            \* "idle" | "call" | "resume" | "loop" | "ret" | "done" | "failed"
    bfConfig,        \* config argument
    bfGrid,          \* grid (shared by every recursive call)
    bfDomains,       \* domains (shared by every recursive call)
    bfStack,         \* the suspended backtrackFill calls, outermost first
    bfRet,           \* value returned by the call that just finished
    bfCalls,         \* backtrackFill invocations since the last yield
    bfOrder,         \* how shuffleArray orders the candidate values in this run
    bfSets,          \* which allocation the Set objects held by domains come from
    bfNewSets,       \* number of allocations of Set objects so far
    \* ---- SudokuEngine.generatePuzzle requests and the worker channel ----
    engWorker,       \* this.worker is a Worker (TRUE) or null (FALSE)
    engRequests,     \* the generatePuzzle calls made so far, in call order
    engOnmessage,    \* the request whose closure is this.worker.onmessage (0: none)
    engInbox,        \* messages posted to the worker, not yet handled by it
    engOutbox,       \* messages posted by the worker, not yet delivered
    \* ---- SudokuValidator and the grid its caller edits ----
    vSize,           \* the size argument the caller passes
    vGrid,           \* the caller's grid
    vEdits,          \* number of cell mutations so far
    vCache,          \* this.conflictCache: hash -> report
    vCleared,        \* clearCaches has been called
    vLast,           \* the last validator call and what it returned
    \* ---- validator calls on data that may be malformed ----
    mGrid,           \* the grid argument, any JavaScript value of the kinds below
    mLast,           \* the last call on it and its outcome
    \* ---- SudokuHints ----
    hGrid,           \* the grid the game passes, a JavaScript value as above
    currentHintLevel,
    hintHistory,
    hLast            \* the last call on the hint engine and what it returned

pzVars == <<pzPc, pzConfig, pzDifficulty, pzSolution, pzPuzzle, pzIdx, pzRemoved>>
wkVars == <<wkPc, wkData, wkShuffles, wkPosted>>
wpVars == <<wpPc, wpConfig, wpDifficulty, wpSolution, wpPuzzle>>
bfVars == <<bfPc, bfConfig, bfGrid, bfDomains, bfStack, bfRet, bfCalls, bfOrder, bfSets, bfNewSets>>
engVars == <<engWorker, engRequests, engOnmessage, engInbox, engOutbox>>
valVars == <<vSize, vGrid, vEdits, vCache, vCleared, vLast>>
malVars == <<mGrid, mLast>>
hintVars == <<hGrid, currentHintLevel, hintHistory, hLast>>

vars == <<pzVars, wkVars, wpVars, bfVars, engVars, valVars, malVars, hintVars>>

\* what the actions of one component leave alone
notPz == <<wkVars, wpVars, bfVars, engVars, valVars, malVars, hintVars>>
notWk == <<pzVars, wpVars, bfVars, engVars, valVars, malVars, hintVars>>
notWp == <<pzVars, wkVars, bfVars, engVars, valVars, malVars, hintVars>>
notBf == <<pzVars, wkVars, wpVars, engVars, valVars, malVars, hintVars>>
notEng == <<pzVars, wkVars, wpVars, bfVars, valVars, malVars, hintVars>>
notVal == <<pzVars, wkVars, wpVars, bfVars, engVars, malVars, hintVars>>
notMal == <<pzVars, wkVars, wpVars, bfVars, engVars, valVars, hintVars>>
notHint == <<pzVars, wkVars, wpVars, bfVars, engVars, valVars, malVars>>

----------------------------------------------------------------------------
(* Configuration tables                                                    *)

gridConfigs ==
    [s \in {4, 6, 9, 16} |->
        CASE s = 4  -> [size |-> 4,  boxWidth |-> 2, boxHeight |-> 2, maxValue |-> 4]
          [] s = 6  -> [size |-> 6,  boxWidth |-> 3, boxHeight |-> 2, maxValue |-> 6]
          [] s = 9  -> [size |-> 9,  boxWidth |-> 3, boxHeight |-> 3, maxValue |-> 9]
          [] s = 16 -> [size |-> 16, boxWidth |-> 4, boxHeight |-> 4, maxValue |-> 16]]

\* fillPercentage is kept in hundredths (0.6 -> 60): every product
\* totalCells * (1 - fillPercentage) the engine forms for the four sizes is
\* either exact in binary floating point (0.75) or not an integer, so the
\* Math.floor of the double equals the integer division below.
difficulties ==
    [d \in {"easy", "medium", "hard", "hardcore"} |->
        CASE d = "easy"     -> [fillPercentage |-> 60, symmetry |-> TRUE]
          [] d = "medium"   -> [fillPercentage |-> 45, symmetry |-> TRUE]
          [] d = "hard"     -> [fillPercentage |-> 35, symmetry |-> FALSE]
          [] d = "hardcore" -> [fillPercentage |-> 25, symmetry |-> FALSE]]

----------------------------------------------------------------------------
(* Grid helpers                                                            *)

Idx(config) == 0 .. (config.size - 1)

Cells(config) == Idx(config) \X Idx(config)

\* Math.floor(row / boxHeight) * boxHeight and the same for columns
boxRowOf(row, config) == (row \div config.boxHeight) * config.boxHeight
boxColOf(col, config) == (col \div config.boxWidth) * config.boxWidth

\* grid[row][col]
At(grid, row, col) == grid[row + 1][col + 1]

\* grid[row][col] = value
Put(grid, row, col, value) == [grid EXCEPT ![row + 1][col + 1] = value]

\* Array(n).fill(x)
RECURSIVE Filled(_, _)
Filled(n, x) == IF n = 0 THEN <<>> ELSE Append(Filled(n - 1, x), x)

\* Array(size).fill().map(() => Array(size).fill(0))
createEmptyGrid(size) == Filled(size, Filled(size, 0))

\* position of a cell in row-major order
RowMajor(cell, config) == cell[1] * config.size + cell[2]

\* the k-th cell (0-based) in row-major order
cellAt(k, config) == <<k \div config.size, k % config.size>>

----------------------------------------------------------------------------
(* SudokuEngine: placement test and solution counting                      *)

isValidPlacement(grid, row, col, value, config) ==
    /\ \A c \in Idx(config) : ~(c # col /\ At(grid, row, c) = value)
    /\ \A r \in Idx(config) : ~(r # row /\ At(grid, r, col) = value)
    /\ LET boxRow == boxRowOf(row, config)
           boxCol == boxColOf(col, config)
       IN  \A r \in boxRow .. (boxRow + config.boxHeight - 1) :
             \A c \in boxCol .. (boxCol + config.boxWidth - 1) :
                ~((r # row \/ c # col) /\ At(grid, r, c) = value)

NoCell == <<-1, -1>>

\* first empty cell in row-major order, NoCell (null) when the grid is full
findEmptyCell(grid, config) ==
    LET empties == {p \in Cells(config) : At(grid, p[1], p[2]) = 0}
    IN  IF empties = {} THEN NoCell
        ELSE CHOOSE p \in empties :
                \A q \in empties : RowMajor(p, config) <= RowMajor(q, config)

RECURSIVE countSolutions(_, _, _, _)
RECURSIVE countSolutionsFrom(_, _, _, _, _, _)

\* countSolutions(grid, config, solutions, maxSolutions): the model carries
\* solutions.length (n) and returns its value after the call; the grid is
\* restored by the caller's loop (grid[row][col] = 0), so it is passed by value.
countSolutions(grid, config, n, maxSolutions) ==
    IF n >= maxSolutions THEN n
    ELSE LET emptyCell == findEmptyCell(grid, config)
         IN  IF emptyCell = NoCell THEN n + 1
             ELSE countSolutionsFrom(grid, config, n, maxSolutions, emptyCell, 1)

\* the for (value = 1; value <= maxValue; value++) loop of countSolutions
countSolutionsFrom(grid, config, n, maxSolutions, cell, value) ==
    IF value > config.maxValue THEN n
    ELSE IF isValidPlacement(grid, cell[1], cell[2], value, config)
         THEN countSolutionsFrom(grid, config,
                  countSolutions(Put(grid, cell[1], cell[2], value),
                                 config, n, maxSolutions),
                  maxSolutions, cell, value + 1)
         ELSE countSolutionsFrom(grid, config, n, maxSolutions, cell, value + 1)

hasUniqueSolution(puzzle, config) == countSolutions(puzzle, config, 0, 2) = 1

----------------------------------------------------------------------------
(* Reference notions the properties are stated with                        *)

\* the values of a group of cells are a permutation of 1..maxValue
GroupComplete(grid, group, config) ==
    /\ \A p \in group : At(grid, p[1], p[2]) \in 1 .. config.maxValue
    /\ \A p, q \in group : p # q => At(grid, p[1], p[2]) # At(grid, q[1], q[2])

RowCells(r, config) == {<<r, c>> : c \in Idx(config)}
ColCells(c, config) == {<<r, c>> : r \in Idx(config)}
BoxCells(br, bc, config) ==
    {<<r, c>> : r \in br .. (br + config.boxHeight - 1),
                c \in bc .. (bc + config.boxWidth - 1)}
BoxOrigins(config) ==
    {p \in Cells(config) : p[1] % config.boxHeight = 0 /\ p[2] % config.boxWidth = 0}

Groups(config) ==
    {RowCells(r, config) : r \in Idx(config)}
    \cup {ColCells(c, config) : c \in Idx(config)}
    \cup {BoxCells(o[1], o[2], config) : o \in BoxOrigins(config)}

\* a complete grid that satisfies the row, column and box rules
IsSolved(grid, config) == \A g \in Groups(config) : GroupComplete(grid, g, config)

\* the cells that share a row, a column or a box with cell p (p excluded)
Peers(p, config) ==
    {q \in Cells(config) :
        /\ q # p
        /\ \/ q[1] = p[1]
           \/ q[2] = p[2]
           \/ /\ boxRowOf(q[1], config) = boxRowOf(p[1], config)
              /\ boxColOf(q[2], config) = boxColOf(p[2], config)}

\* values that no peer of p holds
Legal(grid, p, config) ==
    {v \in 1 .. config.maxValue :
        \A q \in Peers(p, config) : At(grid, q[1], q[2]) # v}

\* all solved grids that extend grid (no cap)
RECURSIVE Completions(_, _)
Completions(grid, config) ==
    LET empties == {e \in Cells(config) : At(grid, e[1], e[2]) = 0}
        fewest(e) == \A o \in empties :
                        Cardinality(Legal(grid, e, config))
                            <= Cardinality(Legal(grid, o, config))
        branch == CHOOSE e \in empties : fewest(e)
    IN  IF empties = {}
        THEN IF IsSolved(grid, config) THEN {grid} ELSE {}
        ELSE UNION {Completions(Put(grid, branch[1], branch[2], v), config) :
                        v \in Legal(grid, branch, config)}

\* every 4x4 solved grid (288 of them)
AllSolutions4 == Completions(createEmptyGrid(4), gridConfigs[4])

----------------------------------------------------------------------------
(* In-process createPuzzleFromSolution                                     *)

\* Math.ceil in place of Math.floor
cellsToRemoveRoundedUp(config, difficultyConfig) ==
    (config.size * config.size * (100 - difficultyConfig.fillPercentage) + 99) \div 100

\* Math.floor(totalCells * (1 - fillPercentage))
cellsToRemove(config, difficultyConfig) ==
    (config.size * config.size * (100 - difficultyConfig.fillPercentage)) \div 100

\* Solved 6x6 grids used as inputs next to every 4x4 solution.
Solution6A ==
    << <<4, 5, 6, 2, 1, 3>>, <<2, 1, 3, 6, 5, 4>>, <<6, 3, 5, 4, 2, 1>>,
                <<1, 2, 4, 3, 6, 5>>, <<3, 6, 1, 5, 4, 2>>, <<5, 4, 2, 1, 3, 6>> >>
Solution6B ==
    << <<3, 2, 5, 4, 6, 1>>, <<1, 6, 4, 3, 5, 2>>, <<5, 3, 6, 2, 1, 4>>,
                <<4, 1, 2, 6, 3, 5>>, <<6, 4, 1, 5, 2, 3>>, <<2, 5, 3, 1, 4, 6>> >>

PuzzleInputs ==
    {[config |-> gridConfigs[4], solution |-> s] : s \in AllSolutions4}
    \cup {[config |-> gridConfigs[6], solution |-> s] : s \in {Solution6A, Solution6B}}

PzInit ==
    /\ pzPc = "loop"
    /\ \E inp \in PuzzleInputs :
         /\ pzConfig = inp.config
         /\ pzSolution = inp.solution
         /\ pzPuzzle = inp.solution           \* solution.map(row => [...row])
    /\ \E d \in DOMAIN difficulties : pzDifficulty = difficulties[d]
    /\ pzIdx = 0
    /\ pzRemoved = 0

\* cellPositions is built in row-major order; this.shuffleArray(cellPositions)
\* shuffles a copy and its return value is dropped, so the for-of loop visits
\* the cells in row-major order: the pzIdx-th cell visited is cellAt(pzIdx).

\* one iteration of the removal loop: clear the cell, keep the removal (and
\* clear the 180-degree counterpart when symmetry is on) if the puzzle is
\* still uniquely solvable, restore the cell otherwise
\* a symRow that stays in the row of the cleared cell
symRowSame(row, config) == row

\* const symRow = size - 1 - row;
symRow(row, config) == config.size - 1 - row

\* const symCol = size - 1 - col;
symCol(col, config) == config.size - 1 - col

PzVisitCell ==
    /\ pzPc = "loop"
    /\ pzIdx < pzConfig.size * pzConfig.size
    /\ ~(pzRemoved >= cellsToRemove(pzConfig, pzDifficulty))
    /\ LET row == cellAt(pzIdx, pzConfig)[1]
           col == cellAt(pzIdx, pzConfig)[2]
           cleared == Put(pzPuzzle, row, col, 0)
       IN  IF hasUniqueSolution(cleared, pzConfig)
           THEN IF pzDifficulty.symmetry
                   /\ At(cleared, symRow(row, pzConfig), symCol(col, pzConfig)) # 0
                THEN /\ pzPuzzle' = Put(cleared, symRow(row, pzConfig),
                                                 symCol(col, pzConfig), 0)
                     /\ pzRemoved' = pzRemoved + 2
                ELSE /\ pzPuzzle' = cleared
                     /\ pzRemoved' = pzRemoved + 1
           ELSE /\ pzPuzzle' = pzPuzzle         \* puzzle[row][col] = originalValue
                /\ pzRemoved' = pzRemoved
    /\ pzIdx' = pzIdx + 1
    /\ UNCHANGED <<pzPc, pzConfig, pzDifficulty, pzSolution>>
    /\ UNCHANGED notPz

\* the break at the quota, or the end of cellPositions: return puzzle
PzReturn ==
    /\ pzPc = "loop"
    /\ \/ pzIdx >= pzConfig.size * pzConfig.size
       \/ pzRemoved >= cellsToRemove(pzConfig, pzDifficulty)
    /\ pzPc' = "done"
    /\ UNCHANGED <<pzConfig, pzDifficulty, pzSolution, pzPuzzle, pzIdx, pzRemoved>>
    /\ UNCHANGED notPz

PzNext == PzVisitCell \/ PzReturn

PzIdle ==
    /\ pzPc = "idle"
    /\ pzConfig = gridConfigs[4]
    /\ pzDifficulty = difficulties["easy"]
    /\ pzSolution = <<>>
    /\ pzPuzzle = <<>>
    /\ pzIdx = 0
    /\ pzRemoved = 0

----------------------------------------------------------------------------
(* The worker script (the string returned by getWorkerCode)                *)

\* Frames the JavaScript call stack holds before the engine raises
\* RangeError: Maximum call stack size exceeded.
StackLimit == 48

NoGrid == <<>>

workerIsValidPlacement(grid, row, col, value, config) ==
    /\ \A c \in Idx(config) : ~(c # col /\ At(grid, row, c) = value)
    /\ \A r \in Idx(config) : ~(r # row /\ At(grid, r, col) = value)
    /\ LET boxRow == boxRowOf(row, config)
           boxCol == boxColOf(col, config)
       IN  \A r \in boxRow .. (boxRow + config.boxHeight - 1) :
             \A c \in boxCol .. (boxCol + config.boxWidth - 1) :
                ~((r # row \/ c # col) /\ At(grid, r, c) = value)

\* fillBox(grid, row, col, config); numbers is the array after shuffleArray
RECURSIVE fillBoxFrom(_, _, _, _, _, _)
fillBoxFrom(grid, row, col, config, numbers, idx) ==
    IF idx >= config.boxHeight * config.boxWidth THEN grid
    ELSE fillBoxFrom(Put(grid, row + (idx \div config.boxWidth),
                               col + (idx % config.boxWidth), numbers[idx + 1]),
                     row, col, config, numbers, idx + 1)

fillBox(grid, row, col, config, numbers) == fillBoxFrom(grid, row, col, config, numbers, 0)

\* for (i = 0; i < size; i += boxWidth) fillBox(grid, i, i, config);
\* shuffles[k] is the shuffled numbers array of the k-th call
RECURSIVE fillDiagonalBoxesFrom(_, _, _, _)
fillDiagonalBoxesFrom(grid, config, shuffles, i) ==
    IF ~(i < config.size) THEN grid
    ELSE fillDiagonalBoxesFrom(
             fillBox(grid, i, i, config, shuffles[(i \div config.boxWidth) + 1]),
             config, shuffles, i + config.boxWidth)

fillDiagonalBoxes(grid, config, shuffles) == fillDiagonalBoxesFrom(grid, config, shuffles, 0)

\* number of fillBox calls fillDiagonalBoxes makes
DiagonalBoxCount(config) == (config.size + config.boxWidth - 1) \div config.boxWidth

RECURSIVE fillRemaining(_, _, _, _, _)
RECURSIVE fillRemainingLoop(_, _, _, _, _, _)

\* fillRemaining(grid, config, row, col), called with depth frames already on
\* the stack.  The result is "true", "false" or "RangeError" (the exception
\* raised when the call does not fit on the stack, which no frame catches),
\* together with the grid as the call leaves it.
fillRemaining(grid, config, row, col, depth) ==
    IF depth >= StackLimit THEN [result |-> "RangeError", grid |-> grid]
    ELSE LET wrap == col >= config.size /\ row < config.size - 1
             row1 == IF wrap THEN row + 1 ELSE row
             col1 == IF wrap THEN 0 ELSE col
         IN  IF row1 >= config.size /\ col1 >= config.size
             THEN [result |-> "true", grid |-> grid]
             ELSE IF /\ (row1 < config.boxHeight \/ row1 >= config.size - config.boxHeight)
                     /\ (col1 < config.boxWidth \/ col1 >= config.size - config.boxWidth)
                  THEN fillRemaining(grid, config, row1, col1 + 1, depth + 1)
                  ELSE fillRemainingLoop(grid, config, row1, col1, 1, depth)

\* the for (num = 1; num <= maxValue; num++) loop of the frame at depth
fillRemainingLoop(grid, config, row, col, num, depth) ==
    IF num > config.maxValue THEN [result |-> "false", grid |-> grid]
    ELSE IF workerIsValidPlacement(grid, row, col, num, config)
         THEN LET inner == fillRemaining(Put(grid, row, col, num), config,
                                         row, col + 1, depth + 1)
              IN  IF inner.result = "false"
                  THEN fillRemainingLoop(Put(inner.grid, row, col, 0), config,
                                         row, col, num + 1, depth)
                  ELSE inner
         ELSE fillRemainingLoop(grid, config, row, col, num + 1, depth)

\* generateSimpleSolution(config): the grid it returns, or the message of the
\* exception it lets escape
generateSimpleSolution(config, shuffles) ==
    LET grid == fillDiagonalBoxes(createEmptyGrid(config.size), config, shuffles)
        filled == fillRemaining(grid, config, 0, config.boxWidth, 1)
    IN  CASE filled.result = "true" ->
                [ok |-> TRUE, grid |-> filled.grid, message |-> ""]
          [] filled.result = "false" ->
                [ok |-> FALSE, grid |-> NoGrid,
                 message |-> "Failed to generate solution in worker"]
          [] OTHER ->
                [ok |-> FALSE, grid |-> NoGrid,
                 message |-> "Maximum call stack size exceeded"]

\* the worker's createPuzzleFromSolution; cellPositions is the array after
\* shuffleArray (the model passes the prefix the loop reads)
RECURSIVE workerClearFrom(_, _, _, _)
workerClearFrom(puzzle, cellPositions, limit, i) ==
    IF ~(i < limit /\ i < Len(cellPositions)) THEN puzzle
    ELSE workerClearFrom(Put(puzzle, cellPositions[i + 1][1], cellPositions[i + 1][2], 0),
                         cellPositions, limit, i + 1)

workerCreatePuzzleFromSolution(solution, config, difficultyConfig, cellPositions) ==
    workerClearFrom(solution, cellPositions, cellsToRemove(config, difficultyConfig), 0)

\* filledCells of calculateFillPercentage (totalCells is size * size)
filledCells(puzzle, config) ==
    Cardinality({p \in Cells(config) : At(puzzle, p[1], p[2]) # 0})

\* the sets of cells that can stand in the first n places of a shuffled
\* cellPositions, each as a sequence
RECURSIVE SeqOfCells(_, _)
SeqOfCells(S, config) ==
    IF S = {} THEN <<>>
    ELSE LET first == CHOOSE p \in S : \A q \in S : RowMajor(p, config) <= RowMajor(q, config)
         IN  <<first>> \o SeqOfCells(S \ {first}, config)

ShuffledPrefixes(config, n) ==
    {SeqOfCells(S, config) :
        S \in {T \in SUBSET Cells(config) : Cardinality(T) = n}}

Min(a, b) == IF a <= b THEN a ELSE b

\* the message self.onmessage posts for event.data
workerOnMessage(data, shuffles, cellPositions) ==
    LET solution == generateSimpleSolution(data.config, shuffles)
        puzzle == workerCreatePuzzleFromSolution(solution.grid, data.config,
                                                 data.difficultyConfig, cellPositions)
    IN  IF solution.ok
        THEN [kind |-> "puzzle", puzzle |-> puzzle, solution |-> solution.grid,
              difficulty |-> data.difficultyConfig, size |-> data.config.size,
              filledCells |-> filledCells(puzzle, data.config), error |-> ""]
        ELSE [kind |-> "error", puzzle |-> NoGrid, solution |-> NoGrid,
              difficulty |-> data.difficultyConfig, size |-> data.config.size,
              filledCells |-> 0, error |-> solution.message]

\* permutations of 1..n as sequences
PermSeqs(n) == {f \in [1 .. n -> 1 .. n] : \A i, j \in 1 .. n : i # j => f[i] # f[j]}

\* rotations of <<1, ..., n>>
Rotations(n) == {[i \in 1 .. n |-> ((i + k - 1) % n) + 1] : k \in 0 .. (n - 1)}

\* outcomes of shuffleArray(numbers) the model draws from: every permutation
\* for the 4x4 grid, the rotations for larger grids
ShuffleOutcomes(config) ==
    IF config.maxValue <= 4 THEN PermSeqs(config.maxValue) ELSE Rotations(config.maxValue)

WorkerSizes == {4, 6}

WkInit ==
    /\ wkPc = "waiting"
    /\ \E s \in WorkerSizes, d \in DOMAIN difficulties :
         /\ wkData = [config |-> gridConfigs[s], difficultyConfig |-> difficulties[d]]
         /\ wkShuffles \in [1 .. DiagonalBoxCount(gridConfigs[s])
                                -> ShuffleOutcomes(gridConfigs[s])]
    /\ wkPosted = <<>>

\* self.onmessage: generate, derive the puzzle, post the result or the error
WkOnMessage ==
    /\ wkPc = "waiting"
    /\ LET solution == generateSimpleSolution(wkData.config, wkShuffles)
           n == Min(cellsToRemove(wkData.config, wkData.difficultyConfig),
                    wkData.config.size * wkData.config.size)
       IN  IF solution.ok
           THEN \E cellPositions \in ShuffledPrefixes(wkData.config, n) :
                   wkPosted' = <<workerOnMessage(wkData, wkShuffles, cellPositions)>>
           ELSE wkPosted' = <<workerOnMessage(wkData, wkShuffles, <<>>)>>
    /\ wkPc' = "answered"
    /\ UNCHANGED <<wkData, wkShuffles>>
    /\ UNCHANGED notWk

WkNext == WkOnMessage

WkIdle ==
    /\ wkPc = "idle"
    /\ wkData = [config |-> gridConfigs[4], difficultyConfig |-> difficulties["easy"]]
    /\ wkShuffles = <<>>
    /\ wkPosted = <<>>

----------------------------------------------------------------------------
(* The worker's createPuzzleFromSolution applied to solved grids           *)

WorkerPuzzleInputs ==
    {s \in AllSolutions4 : s[1] = <<1, 2, 3, 4>> /\ s[2][1] = 3}

WpInit ==
    /\ wpPc = "called"
    /\ wpConfig = gridConfigs[4]
    /\ \E d \in DOMAIN difficulties : wpDifficulty = difficulties[d]
    /\ wpSolution \in WorkerPuzzleInputs
    /\ wpPuzzle = NoGrid

WpCreatePuzzle ==
    /\ wpPc = "called"
    /\ \E cellPositions \in
            ShuffledPrefixes(wpConfig,
                Min(cellsToRemove(wpConfig, wpDifficulty), wpConfig.size * wpConfig.size)) :
         wpPuzzle' = workerCreatePuzzleFromSolution(wpSolution, wpConfig, wpDifficulty,
                                                    cellPositions)
    /\ wpPc' = "returned"
    /\ UNCHANGED <<wpConfig, wpDifficulty, wpSolution>>
    /\ UNCHANGED notWp

WpNext == WpCreatePuzzle

WpIdle ==
    /\ wpPc = "idle"
    /\ wpConfig = gridConfigs[4]
    /\ wpDifficulty = difficulties["easy"]
    /\ wpSolution = NoGrid
    /\ wpPuzzle = NoGrid

----------------------------------------------------------------------------
(* In-process generateCompleteSolution: constraint propagation and the     *)
(* backtracking fill.  The domains object maps the key `${row},${col}` to  *)
(* a Set; the model keeps it as rows of sets, read with At and written     *)
(* with Put like a grid.                                                   *)

\* a function over 1..n as a sequence
AsSeq(f) == <<>> \o f

initializeDomains(config) == Filled(config.size, Filled(config.size, 1 .. config.maxValue))

\* the values updateDomainConstraints deletes from the domain of (row, col):
\* every non-zero value of another cell of its row, column or box
fixedAround(row, col, grid, config) ==
    {At(grid, row, c) : c \in {x \in Idx(config) : x # col /\ At(grid, row, x) # 0}}
    \cup {At(grid, r, col) : r \in {x \in Idx(config) : x # row /\ At(grid, x, col) # 0}}
    \cup LET boxRow == boxRowOf(row, config)
             boxCol == boxColOf(col, config)
         IN  {At(grid, q[1], q[2]) :
                q \in {x \in (boxRow .. (boxRow + config.boxHeight - 1))
                             \X (boxCol .. (boxCol + config.boxWidth - 1)) :
                         (x[1] # row \/ x[2] # col) /\ At(grid, x[1], x[2]) # 0}}

updateDomainConstraints(row, col, grid, domains, config) ==
    Put(domains, row, col, At(domains, row, col) \ fixedAround(row, col, grid, config))

\* The body of the two for loops of applyConstraintPropagation for one cell.
\* st = [grid, domains, changed, ok]; ok = FALSE is the early return false,
\* after which nothing more is done.
propagateCell(st, config, k) ==
    LET row == cellAt(k, config)[1]
        col == cellAt(k, config)[2]
    IN  IF ~st.ok \/ At(st.grid, row, col) # 0 THEN st
        ELSE LET originalSize == Cardinality(At(st.domains, row, col))
                 updated == updateDomainConstraints(row, col, st.grid, st.domains, config)
                 domain == At(updated, row, col)
                 shrunk == Cardinality(domain) # originalSize
             IN  IF Cardinality(domain) = 0
                 THEN [grid |-> st.grid, domains |-> updated,
                       changed |-> st.changed \/ shrunk, ok |-> FALSE]
                 ELSE IF Cardinality(domain) = 1
                 THEN [grid |-> Put(st.grid, row, col, CHOOSE v \in domain : TRUE),
                       domains |-> Put(updated, row, col, {}),
                       changed |-> TRUE, ok |-> TRUE]
                 ELSE [grid |-> st.grid, domains |-> updated,
                       changed |-> st.changed \/ shrunk, ok |-> TRUE]

\* the cells lo .. hi-1 in row-major order, one after the other
RECURSIVE propagationPass(_, _, _, _)
propagationPass(st, config, lo, hi) ==
    IF hi - lo <= 0 THEN st
    ELSE IF hi - lo = 1 THEN propagateCell(st, config, lo)
    ELSE LET mid == (lo + hi) \div 2
         IN  CHOOSE out \in {propagationPass(first, config, mid, hi) :
                                first \in {propagationPass(st, config, lo, mid)}} : TRUE

\* while (changed) { changed = false; ...pass... }
RECURSIVE applyConstraintPropagation(_, _, _)
applyConstraintPropagation(grid, domains, config) ==
    LET pass == propagationPass([grid |-> grid, domains |-> domains,
                                 changed |-> FALSE, ok |-> TRUE],
                                config, 0, config.size * config.size)
    IN  IF ~pass.ok \/ ~pass.changed THEN pass
        ELSE applyConstraintPropagation(pass.grid, pass.domains, config)

\* MRV: the first empty cell in row-major order whose domain is strictly
\* smaller than that of every empty cell before it; NoCell (null) if none
selectUnassignedVariable(grid, domains, config) ==
    LET empties == {p \in Cells(config) : At(grid, p[1], p[2]) = 0}
        remainingValues(p) == Cardinality(At(domains, p[1], p[2]))
    IN  IF empties = {} THEN NoCell
        ELSE CHOOSE p \in empties :
                \A q \in empties :
                    \/ remainingValues(p) < remainingValues(q)
                    \/ /\ remainingValues(p) = remainingValues(q)
                       /\ RowMajor(p, config) <= RowMajor(q, config)

\* the cells whose domain propagateAssignment deletes value from
propagateTargets(row, col, config) ==
    {<<row, c>> : c \in {x \in Idx(config) : x # col}}
    \cup {<<r, col>> : r \in {x \in Idx(config) : x # row}}
    \cup LET boxRow == boxRowOf(row, config)
             boxCol == boxColOf(col, config)
         IN  {q \in (boxRow .. (boxRow + config.boxHeight - 1))
                    \X (boxCol .. (boxCol + config.boxWidth - 1)) :
                q[1] # row \/ q[2] # col}

\* a propagateAssignment that skips the box loop
propagateAssignmentWithoutBox(row, col, value, domains, config) ==
    AsSeq([r \in 1 .. config.size |->
        AsSeq([c \in 1 .. config.size |->
            IF (r - 1 = row /\ c - 1 # col) \/ (r - 1 # row /\ c - 1 = col)
            THEN domains[r][c] \ {value}
            ELSE domains[r][c]])])

propagateAssignment(row, col, value, domains, config) ==
    LET targets == propagateTargets(row, col, config)
    IN  AsSeq([r \in 1 .. config.size |->
            AsSeq([c \in 1 .. config.size |->
                IF <<r - 1, c - 1>> \in targets
                THEN domains[r][c] \ {value}
                ELSE domains[r][c]])])

\* saveDomains copies every Set; values of the model are immutable, so the
\* copy is the value itself
saveDomains(domains) == domains

\* a frame that has not called saveDomains yet
NoSets == -1

\* a restoreDomains that restores the keys of the first row only
restoreDomainsFirstRowOnly(domains, savedDomains) ==
    <<savedDomains[1]>> \o Tail(domains)

\* a restoreDomains that leaves the pruned domains in place
restoreDomainsKeepsPruned(domains, savedDomains) == domains

\* restoreDomains(domains, savedDomains): every key of savedDomains is
\* overwritten with a copy of the saved Set
restoreDomains(domains, savedDomains) == savedDomains

\* setTimeout(resolve, 0) is awaited when depth % YieldEvery = 0
YieldEvery == 50

\* orderDomainValues returns shuffleArray(values), a uniformly random order.
\* AnyOrder lets every iteration of the for loop take any value not tried
\* yet, which covers every order.  On the larger grids a run draws its
\* orders from a family indexed by two coefficients: the values of the cell
\* (row, col) are tried in increasing (value - 1 + a*row + b*col) % maxValue.
AnyOrder == <<-1, -1>>

orderKey(order, row, col, value, config) ==
    (value - 1 + order[1] * row + order[2] * col) % config.maxValue

\* the values the next iteration of the for loop may take
nextValues(frame, order, config) ==
    IF order = AnyOrder THEN frame.values
    ELSE {v \in frame.values :
            \A w \in frame.values :
                orderKey(order, frame.cell[1], frame.cell[2], v, config)
                    <= orderKey(order, frame.cell[1], frame.cell[2], w, config)}

FillInputs ==
    {<<4, AnyOrder>>}
    \cup {<<6, o>> : o \in {<<0, 0>>, <<1, 2>>}}
    \cup {<<9, o>> : o \in {<<0, 0>>, <<0, 1>>, <<1, 1>>, <<1, 4>>, <<5, 0>>}}

BfInit ==
    /\ bfPc = "call"
    /\ \E in \in FillInputs :
         /\ bfConfig = gridConfigs[in[1]]
         /\ bfOrder = in[2]
         /\ LET start == applyConstraintPropagation(createEmptyGrid(in[1]),
                                                    initializeDomains(gridConfigs[in[1]]),
                                                    gridConfigs[in[1]])
            IN  /\ bfGrid = start.grid
                /\ bfDomains = start.domains
    /\ bfStack = <<>>
    /\ bfRet = FALSE
    /\ bfCalls = 0
    /\ bfSets = 0                  \* initializeDomains: one new Set per cell
    /\ bfNewSets = 1

\* depth argument of the call being entered or running
bfDepth == IF bfPc \in {"call", "resume"} THEN Len(bfStack) ELSE Len(bfStack) - 1

\* backtrackFill entered with depth % 50 = 0: await the zero-delay timer
BfYield ==
    /\ bfPc = "call"
    /\ Len(bfStack) % YieldEvery = 0
    /\ bfPc' = "resume"
    /\ bfCalls' = 0
    /\ UNCHANGED <<bfConfig, bfGrid, bfDomains, bfStack, bfRet, bfOrder, bfSets, bfNewSets>>
    /\ UNCHANGED notBf

\* the call goes on (directly, or after the timer): pick the cell and order
\* its values, or return true when no cell is empty
BfSelect ==
    /\ \/ bfPc = "resume"
       \/ bfPc = "call" /\ Len(bfStack) % YieldEvery # 0
    /\ LET cell == selectUnassignedVariable(bfGrid, bfDomains, bfConfig)
       IN  IF cell = NoCell
           THEN /\ bfPc' = "ret"
                /\ bfRet' = TRUE
                /\ bfStack' = bfStack
           ELSE /\ bfPc' = "loop"
                /\ bfRet' = bfRet
                /\ bfStack' = Append(bfStack,
                       [cell |-> cell,
                        values |-> At(bfDomains, cell[1], cell[2]),
                        savedDomains |-> <<>>,
                        savedSets |-> NoSets,
                        entryGrid |-> bfGrid,
                        entryDomains |-> bfDomains])
    /\ bfCalls' = IF bfPc = "call" THEN bfCalls + 1 ELSE bfCalls
    /\ UNCHANGED <<bfConfig, bfGrid, bfDomains, bfOrder, bfSets, bfNewSets>>
    /\ UNCHANGED notBf

\* one iteration of for (const value of values): the shuffled order is drawn
\* value by value from those not tried yet; a placeable value is assigned,
\* the domains are saved and propagated, and backtrackFill is called
BfTry ==
    /\ bfPc = "loop"
    /\ LET frame == bfStack[Len(bfStack)]
           row == frame.cell[1]
           col == frame.cell[2]
       IN  \E value \in nextValues(frame, bfOrder, bfConfig) :
             IF isValidPlacement(bfGrid, row, col, value, bfConfig)
             THEN /\ bfGrid' = Put(bfGrid, row, col, value)
                  /\ bfStack' = [bfStack EXCEPT ![Len(bfStack)] =
                                    [frame EXCEPT !.values = frame.values \ {value},
                                                  !.savedDomains = saveDomains(bfDomains),
                                                  !.savedSets = bfNewSets]]
                  /\ bfNewSets' = bfNewSets + 1
                  /\ bfDomains' = propagateAssignment(row, col, value, bfDomains, bfConfig)
                  /\ bfPc' = "call"
             ELSE /\ bfStack' = [bfStack EXCEPT ![Len(bfStack)] =
                                    [frame EXCEPT !.values = frame.values \ {value}]]
                  /\ UNCHANGED <<bfGrid, bfDomains, bfPc, bfNewSets>>
    /\ UNCHANGED <<bfConfig, bfRet, bfCalls, bfOrder, bfSets>>
    /\ UNCHANGED notBf

\* the for loop is exhausted: return false
BfExhausted ==
    /\ bfPc = "loop"
    /\ bfStack[Len(bfStack)].values = {}
    /\ bfStack' = SubSeq(bfStack, 1, Len(bfStack) - 1)
    /\ bfPc' = "ret"
    /\ bfRet' = FALSE
    /\ UNCHANGED <<bfConfig, bfGrid, bfDomains, bfCalls, bfOrder, bfSets, bfNewSets>>
    /\ UNCHANGED notBf

\* the awaited recursive call returned to the frame on top of the stack:
\* true is passed on, false undoes the assignment and restores the domains
BfResume ==
    /\ bfPc = "ret"
    /\ bfStack # <<>>
    /\ LET frame == bfStack[Len(bfStack)]
       IN  IF bfRet
           THEN /\ bfStack' = SubSeq(bfStack, 1, Len(bfStack) - 1)
                /\ UNCHANGED <<bfGrid, bfDomains, bfPc, bfSets, bfNewSets>>
           ELSE /\ bfGrid' = Put(bfGrid, frame.cell[1], frame.cell[2], 0)
                /\ bfDomains' = restoreDomains(bfDomains, frame.savedDomains)
                /\ bfSets' = bfNewSets      \* domains[key] = new Set(domain)
                /\ bfNewSets' = bfNewSets + 1
                /\ bfPc' = "loop"
                /\ bfStack' = bfStack
    /\ UNCHANGED <<bfConfig, bfRet, bfCalls, bfOrder>>
    /\ UNCHANGED notBf

\* the outermost call returned to generateCompleteSolution: return grid, or
\* throw 'Failed to generate complete solution'
BfFinish ==
    /\ bfPc = "ret"
    /\ bfStack = <<>>
    /\ bfPc' = IF bfRet THEN "done" ELSE "failed"
    /\ UNCHANGED <<bfConfig, bfGrid, bfDomains, bfStack, bfRet, bfCalls, bfOrder, bfSets, bfNewSets>>
    /\ UNCHANGED notBf

BfNext == BfYield \/ BfSelect \/ BfTry \/ BfExhausted \/ BfResume \/ BfFinish

BfIdle ==
    /\ bfPc = "idle"
    /\ bfConfig = gridConfigs[4]
    /\ bfGrid = NoGrid
    /\ bfDomains = <<>>
    /\ bfStack = <<>>
    /\ bfRet = FALSE
    /\ bfCalls = 0
    /\ bfOrder = AnyOrder
    /\ bfSets = 0
    /\ bfNewSets = 0

----------------------------------------------------------------------------
(* SudokuEngine.generatePuzzle: validation of the arguments, the worker     *)
(* path (generateWithWorker, the worker, the 30 s timer) and the main       *)
(* thread path.  Property names are strings, as in JavaScript.              *)

\* own property names of this.gridConfigs and the size each one stands for
gridConfigKeys == {"4", "6", "9", "16"}

sizeOfKey(key) ==
    CASE key = "4" -> 4
      [] key = "6" -> 6
      [] key = "9" -> 9
      [] key = "16" -> 16

\* gridConfigs and difficulties are object literals: the lookup obj[key]
\* also finds the properties inherited from Object.prototype
ObjectPrototypeKeys == {"constructor", "toString", "valueOf", "hasOwnProperty"}

\* this.gridConfigs[size]
lookupGridConfig(size) ==
    IF size \in gridConfigKeys
    THEN [kind |-> "config", config |-> gridConfigs[sizeOfKey(size)]]
    ELSE IF size \in ObjectPrototypeKeys
    THEN [kind |-> "function", config |-> gridConfigs[4]]
    ELSE [kind |-> "undefined", config |-> gridConfigs[4]]

\* this.difficulties[difficulty]
lookupDifficulty(difficulty) ==
    IF difficulty \in DOMAIN difficulties
    THEN [kind |-> "config", difficultyConfig |-> difficulties[difficulty]]
    ELSE IF difficulty \in ObjectPrototypeKeys
    THEN [kind |-> "function", difficultyConfig |-> difficulties["easy"]]
    ELSE [kind |-> "undefined", difficultyConfig |-> difficulties["easy"]]

\* !value
falsy(value) == value.kind = "undefined"

\* postMessage clones its argument; cloning a function throws DataCloneError
cloneable(value) == value.kind = "config"

MaxRequests == 2

EngSizes == {"4", "5", "constructor"}
EngDifficulties == {"easy", "expert"}

\* shuffleArray(numbers) outcomes drawn by the worker in this specification
EngShuffles(config) ==
    {[box \in 1 .. DiagonalBoxCount(config) |-> r] : r \in Rotations(config.maxValue)}

newRequest(size, difficulty, useWorker) ==
    [size |-> size, difficulty |-> difficulty, useWorker |-> useWorker,
     status |-> "pending",   \* of the promise generatePuzzle returned
     via |-> "",             \* what settled it
     answerFor |-> 0,        \* the request whose message the settling answer answers
     timer |-> "none",       \* the 30 s timer of generateWithWorker
     posted |-> FALSE,       \* a message was posted to the worker
     grids |-> 0]            \* grids created on the main thread

EngInit ==
    /\ engWorker \in BOOLEAN
    /\ engRequests = <<>>
    /\ engOnmessage = 0
    /\ engInbox = <<>>
    /\ engOutbox = <<>>

\* generatePuzzle(size, difficulty, useWorker) up to its first await
EngGeneratePuzzle ==
    /\ Len(engRequests) < MaxRequests
    /\ \E size \in EngSizes, difficulty \in EngDifficulties, useWorker \in BOOLEAN :
         LET id == Len(engRequests) + 1
             request == newRequest(size, difficulty, useWorker)
             config == lookupGridConfig(size)
             difficultyConfig == lookupDifficulty(difficulty)
         IN  IF falsy(config)
             THEN /\ engRequests' = Append(engRequests,
                        [request EXCEPT !.status = "rejected", !.via = "Unsupported grid size"])
                  /\ UNCHANGED <<engOnmessage, engInbox>>
             ELSE IF falsy(difficultyConfig)
             THEN /\ engRequests' = Append(engRequests,
                        [request EXCEPT !.status = "rejected", !.via = "Unsupported difficulty"])
                  /\ UNCHANGED <<engOnmessage, engInbox>>
             ELSE IF useWorker /\ engWorker
             THEN \* generateWithWorker: setTimeout, onmessage, onerror, postMessage
                  /\ engOnmessage' = id
                  /\ IF cloneable(config) /\ cloneable(difficultyConfig)
                     THEN /\ engRequests' = Append(engRequests,
                                [request EXCEPT !.timer = "armed", !.posted = TRUE])
                          /\ engInbox' = Append(engInbox,
                                [for |-> id,
                                 data |-> [config |-> config.config,
                                           difficultyConfig |-> difficultyConfig.difficultyConfig]])
                     ELSE /\ engRequests' = Append(engRequests,
                                [request EXCEPT !.timer = "armed", !.status = "rejected",
                                                !.via = "DataCloneError"])
                          /\ engInbox' = engInbox
             ELSE \* generateOnMainThread: generateCompleteSolution creates the
                  \* grid and the domains, then awaits backtrackFill
                  /\ engRequests' = Append(engRequests, [request EXCEPT !.grids = 1])
                  /\ UNCHANGED <<engOnmessage, engInbox>>
    /\ UNCHANGED <<engWorker, engOutbox>>
    /\ UNCHANGED notEng

\* generateOnMainThread returns: the promise resolves with the puzzle
EngMainThreadDone ==
    /\ \E id \in 1 .. Len(engRequests) :
         /\ engRequests[id].status = "pending"
         /\ engRequests[id].grids > 0
         /\ engRequests' = [engRequests EXCEPT ![id].status = "resolved",
                                               ![id].via = "main thread"]
    /\ UNCHANGED <<engWorker, engOnmessage, engInbox, engOutbox>>
    /\ UNCHANGED notEng

\* the worker handles its oldest message and posts the answer
EngWorkerOnMessage ==
    /\ engInbox # <<>>
    /\ LET message == Head(engInbox)
           n == Min(cellsToRemove(message.data.config, message.data.difficultyConfig),
                    message.data.config.size * message.data.config.size)
       IN  \E shuffles \in EngShuffles(message.data.config) :
             IF generateSimpleSolution(message.data.config, shuffles).ok
             THEN \E cellPositions \in ShuffledPrefixes(message.data.config, n) :
                    engOutbox' = Append(engOutbox,
                        [for |-> message.for,
                         data |-> workerOnMessage(message.data, shuffles, cellPositions)])
             ELSE engOutbox' = Append(engOutbox,
                        [for |-> message.for,
                         data |-> workerOnMessage(message.data, shuffles, <<>>)])
    /\ engInbox' = Tail(engInbox)
    /\ UNCHANGED <<engWorker, engRequests, engOnmessage>>
    /\ UNCHANGED notEng

\* the main thread receives the worker's oldest answer: this.worker.onmessage
\* runs, which is the closure the latest generateWithWorker installed
EngDeliver ==
    /\ engOutbox # <<>>
    /\ engOnmessage # 0
    /\ LET event == Head(engOutbox)
           id == engOnmessage
           request == engRequests[id]
           cleared == IF request.timer = "armed" THEN "cleared" ELSE request.timer
       IN  engRequests' =
             IF request.status = "pending"
             THEN [engRequests EXCEPT ![id] =
                      [request EXCEPT !.timer = cleared,
                                      !.status = IF event.data.kind = "error"
                                                 THEN "rejected" ELSE "resolved",
                                      !.via = "worker",
                                      !.answerFor = event.for]]
             ELSE [engRequests EXCEPT ![id].timer = cleared]
    /\ engOutbox' = Tail(engOutbox)
    /\ UNCHANGED <<engWorker, engOnmessage, engInbox>>
    /\ UNCHANGED notEng

\* the 30 s timer of a request fires
EngTimeout ==
    /\ \E id \in 1 .. Len(engRequests) :
         /\ engRequests[id].timer = "armed"
         /\ engRequests' =
              IF engRequests[id].status = "pending"
              THEN [engRequests EXCEPT ![id].timer = "fired",
                                       ![id].status = "rejected",
                                       ![id].via = "Puzzle generation timeout"]
              ELSE [engRequests EXCEPT ![id].timer = "fired"]
    /\ UNCHANGED <<engWorker, engOnmessage, engInbox, engOutbox>>
    /\ UNCHANGED notEng

EngNext ==
    \/ EngGeneratePuzzle
    \/ EngMainThreadDone
    \/ EngWorkerOnMessage
    \/ EngDeliver
    \/ EngTimeout

EngIdle ==
    /\ engWorker = FALSE
    /\ engRequests = <<>>
    /\ engOnmessage = 0
    /\ engInbox = <<>>
    /\ engOutbox = <<>>

----------------------------------------------------------------------------
(* SudokuValidator.  Arrays are sequences; a position [r, c] is <<r, c>>.  *)

\* <<0, 1, ..., n - 1>>
Range0(n) == AsSeq([i \in 1 .. n |-> i - 1])

RECURSIVE Flatten(_)
Flatten(seqs) == IF Len(seqs) = 0 THEN <<>> ELSE Head(seqs) \o Flatten(Tail(seqs))

\* the cells of the box at (startRow, startCol), row by row
boxCellSeq(startRow, startCol, config) ==
    AsSeq([i \in 1 .. (config.boxHeight * config.boxWidth) |->
              <<startRow + ((i - 1) \div config.boxWidth),
                startCol + ((i - 1) % config.boxWidth)>>])

\* (boxRow, boxCol) in the order of the two nested box loops
boxOriginSeq(config) ==
    AsSeq([i \in 1 .. ((config.size \div config.boxHeight) * (config.size \div config.boxWidth)) |->
              <<((i - 1) \div (config.size \div config.boxWidth)) * config.boxHeight,
                ((i - 1) % (config.size \div config.boxWidth)) * config.boxWidth>>])

\* validateCellConstraints with the target cell not excluded from the scans
validateCellConstraintsIncludingSelf(grid, row, col, value, config) ==
    IF value = 0 THEN <<>>
    ELSE LET inRow(c) == At(grid, row, c) = value
             inColumn(r) == At(grid, r, col) = value
             inBox(q) == At(grid, q[1], q[2]) = value
             rowHits == SelectSeq(Range0(config.size), inRow)
             columnHits == SelectSeq(Range0(config.size), inColumn)
             boxHits == SelectSeq(boxCellSeq(boxRowOf(row, config),
                                             boxColOf(col, config), config), inBox)
         IN  AsSeq([i \in 1 .. Len(rowHits) |->
                       [type |-> "row_conflict", position |-> <<row, col>>,
                        conflictPosition |-> <<row, rowHits[i]>>, value |-> value]])
             \o AsSeq([i \in 1 .. Len(columnHits) |->
                       [type |-> "column_conflict", position |-> <<row, col>>,
                        conflictPosition |-> <<columnHits[i], col>>, value |-> value]])
             \o AsSeq([i \in 1 .. Len(boxHits) |->
                       [type |-> "box_conflict", position |-> <<row, col>>,
                        conflictPosition |-> boxHits[i], value |-> value]])

validateCellConstraints(grid, row, col, value, config) ==
    IF value = 0 THEN <<>>
    ELSE LET inRow(c) == c # col /\ At(grid, row, c) = value
             inColumn(r) == r # row /\ At(grid, r, col) = value
             inBox(q) == (q[1] # row \/ q[2] # col) /\ At(grid, q[1], q[2]) = value
             rowHits == SelectSeq(Range0(config.size), inRow)
             columnHits == SelectSeq(Range0(config.size), inColumn)
             boxHits == SelectSeq(boxCellSeq(boxRowOf(row, config),
                                             boxColOf(col, config), config), inBox)
         IN  AsSeq([i \in 1 .. Len(rowHits) |->
                       [type |-> "row_conflict", position |-> <<row, col>>,
                        conflictPosition |-> <<row, rowHits[i]>>, value |-> value]])
             \o AsSeq([i \in 1 .. Len(columnHits) |->
                       [type |-> "column_conflict", position |-> <<row, col>>,
                        conflictPosition |-> <<columnHits[i], col>>, value |-> value]])
             \o AsSeq([i \in 1 .. Len(boxHits) |->
                       [type |-> "box_conflict", position |-> <<row, col>>,
                        conflictPosition |-> boxHits[i], value |-> value]])

\* Array.from(affected): the Set keeps one entry per cell
getAffectedCells(row, col, config) ==
    {<<row, c>> : c \in {x \in Idx(config) : x # col}}
    \cup {<<r, col>> : r \in {x \in Idx(config) : x # row}}
    \cup {q \in (boxRowOf(row, config) .. (boxRowOf(row, config) + config.boxHeight - 1))
                \X (boxColOf(col, config) .. (boxColOf(col, config) + config.boxWidth - 1)) :
            q[1] # row \/ q[2] # col}

getValidValues(grid, row, col, config) ==
    LET valid(value) == Len(validateCellConstraints(grid, row, col, value, config)) = 0
    IN  SelectSeq(AsSeq([i \in 1 .. config.maxValue |-> i]), valid)

\* the valid_values suggestion and the affected_cells suggestion, each
\* present only when its list is not empty
generateMoveSuggestions(grid, row, col, config) ==
    LET validValues == getValidValues(grid, row, col, config)
        affectedEmpty == {q \in getAffectedCells(row, col, config) : At(grid, q[1], q[2]) = 0}
    IN  (IF Len(validValues) > 0
         THEN <<[type |-> "valid_values", values |-> validValues, positions |-> {}]>>
         ELSE <<>>)
        \o (IF affectedEmpty # {}
            THEN <<[type |-> "affected_cells", values |-> <<>>, positions |-> affectedEmpty]>>
            ELSE <<>>)

validateMove(grid, row, col, value, config) ==
    IF value # 0 /\ (value < 1 \/ value > config.maxValue)
    THEN [isValid |-> FALSE,
          conflicts |-> <<[type |-> "invalid_value", position |-> <<row, col>>,
                           conflictPosition |-> NoCell, value |-> value]>>,
          affectedCells |-> {}, suggestions |-> <<>>]
    ELSE LET cellConflicts == validateCellConstraints(grid, row, col, value, config)
         IN  [isValid |-> Len(cellConflicts) = 0,
              conflicts |-> cellConflicts,
              affectedCells |-> getAffectedCells(row, col, config),
              suggestions |-> IF Len(cellConflicts) = 0 THEN <<>>
                              ELSE generateMoveSuggestions(grid, row, col, config)]

validateGridStructure(grid, config) ==
    /\ Len(grid) = config.size
    /\ \A r \in 1 .. Len(grid) :
         /\ Len(grid[r]) = config.size
         /\ \A c \in 1 .. Len(grid[r]) : grid[r][c] \in 0 .. config.maxValue

\* filledCells / totalCells, kept as the two integers
calculateCompleteness(grid) ==
    [filledCells |-> Cardinality({q \in (1 .. Len(grid)) \X (1 .. Len(grid[1])) :
                                    grid[q[1]][q[2]] # 0}),
     totalCells |-> Len(grid) * Len(grid[1])]

isValidGroup(values, maxValue) ==
    LET nonZero(v) == v # 0
        nonZeroValues == SelectSeq(values, nonZero)
    IN  Cardinality({nonZeroValues[i] : i \in 1 .. Len(nonZeroValues)}) = Len(nonZeroValues)

getRow(grid, row) == grid[row + 1]

getColumn(grid, col) == AsSeq([r \in 1 .. Len(grid) |-> grid[r][col + 1]])

getBox(grid, startRow, startCol, config) ==
    LET positions == boxCellSeq(startRow, startCol, config)
    IN  [values |-> AsSeq([i \in 1 .. Len(positions) |->
                              At(grid, positions[i][1], positions[i][2])]),
         positions |-> positions]

\* 0-based indexes; the Map keeps the values in order of first occurrence
findDuplicatePositions(values, index, type) ==
    LET firstOf(idx) == values[idx] # 0 /\ \A j \in 1 .. (idx - 1) : values[j] # values[idx]
        firsts == SelectSeq(AsSeq([i \in 1 .. Len(values) |-> i]), firstOf)
        indicesOf(value) ==
            LET same(idx) == values[idx] = value
            IN  SelectSeq(AsSeq([i \in 1 .. Len(values) |-> i]), same)
        positionsOf(value) ==
            LET indices == indicesOf(value)
            IN  IF Len(indices) > 1
                THEN AsSeq([k \in 1 .. Len(indices) |->
                               IF type = "row" THEN <<index, indices[k] - 1>>
                               ELSE <<indices[k] - 1, index>>])
                ELSE <<>>
    IN  IF type \in {"row", "column"}
        THEN Flatten(AsSeq([k \in 1 .. Len(firsts) |-> positionsOf(values[firsts[k]])]))
        ELSE <<>>

\* box.positions.filter((pos, idx) => box.values.indexOf(box.values[idx]) !== idx
\*                                    && box.values[idx] !== 0)
boxDuplicatePositions(box) ==
    LET later(idx) == /\ box.values[idx] # 0
                      /\ \E j \in 1 .. (idx - 1) : box.values[j] = box.values[idx]
        hits == SelectSeq(AsSeq([i \in 1 .. Len(box.values) |-> i]), later)
    IN  AsSeq([k \in 1 .. Len(hits) |-> box.positions[hits[k]]])

\* validateAllConstraints with the box loop left out
validateAllConstraintsWithoutBoxes(grid, config) ==
    LET badRow(row) == ~isValidGroup(getRow(grid, row), config.maxValue)
        badColumn(col) == ~isValidGroup(getColumn(grid, col), config.maxValue)
        rows == SelectSeq(Range0(config.size), badRow)
        columns == SelectSeq(Range0(config.size), badColumn)
        conflicts ==
            AsSeq([i \in 1 .. Len(rows) |->
                      [type |-> "row_duplicate", at |-> <<rows[i]>>,
                       positions |-> findDuplicatePositions(getRow(grid, rows[i]), rows[i], "row")]])
            \o AsSeq([i \in 1 .. Len(columns) |->
                      [type |-> "column_duplicate", at |-> <<columns[i]>>,
                       positions |-> findDuplicatePositions(getColumn(grid, columns[i]),
                                                            columns[i], "column")]])
    IN  [isValid |-> Len(conflicts) = 0, conflicts |-> conflicts, errors |-> <<>>]

validateAllConstraints(grid, config) ==
    LET badRow(row) == ~isValidGroup(getRow(grid, row), config.maxValue)
        badColumn(col) == ~isValidGroup(getColumn(grid, col), config.maxValue)
        badBox(origin) == ~isValidGroup(getBox(grid, origin[1], origin[2], config).values,
                                        config.maxValue)
        rows == SelectSeq(Range0(config.size), badRow)
        columns == SelectSeq(Range0(config.size), badColumn)
        boxes == SelectSeq(boxOriginSeq(config), badBox)
        conflicts ==
            AsSeq([i \in 1 .. Len(rows) |->
                      [type |-> "row_duplicate", at |-> <<rows[i]>>,
                       positions |-> findDuplicatePositions(getRow(grid, rows[i]), rows[i], "row")]])
            \o AsSeq([i \in 1 .. Len(columns) |->
                      [type |-> "column_duplicate", at |-> <<columns[i]>>,
                       positions |-> findDuplicatePositions(getColumn(grid, columns[i]),
                                                            columns[i], "column")]])
            \o AsSeq([i \in 1 .. Len(boxes) |->
                      [type |-> "box_duplicate", at |-> boxes[i],
                       positions |-> boxDuplicatePositions(
                                         getBox(grid, boxes[i][1], boxes[i][2], config))]])
    IN  [isValid |-> Len(conflicts) = 0, conflicts |-> conflicts, errors |-> <<>>]

validateSolution(grid, config) ==
    LET completeness == calculateCompleteness(grid)
        constraintResults == validateAllConstraints(grid, config)
    IN  IF ~validateGridStructure(grid, config)
        THEN [isValid |-> FALSE, errors |-> <<"Invalid grid structure">>,
              conflicts |-> <<>>, completeness |-> completeness]
        ELSE IF completeness.filledCells < completeness.totalCells
        THEN [isValid |-> FALSE, errors |-> <<"Puzzle is incomplete">>,
              conflicts |-> <<>>, completeness |-> completeness]
        ELSE [isValid |-> constraintResults.isValid,
              errors |-> constraintResults.errors,
              conflicts |-> constraintResults.conflicts,
              completeness |-> completeness]

\* The duplicates of one group scanned in the order `cells`: the Map `seen`
\* keeps, per value, only the first cell that held it, and every later cell
\* with that value pushes the pair [first, current].
groupConflicts(grid, cells, type) ==
    LET valueAt(i) == At(grid, cells[i][1], cells[i][2])
        seenBefore(i) == valueAt(i) # 0 /\ \E j \in 1 .. (i - 1) : valueAt(j) = valueAt(i)
        firstWith(i) == CHOOSE j \in 1 .. (i - 1) :
                           /\ valueAt(j) = valueAt(i)
                           /\ \A k \in 1 .. (j - 1) : valueAt(k) # valueAt(i)
        hits == SelectSeq(AsSeq([i \in 1 .. Len(cells) |-> i]), seenBefore)
    IN  AsSeq([k \in 1 .. Len(hits) |->
                  [type |-> type, value |-> valueAt(hits[k]),
                   positions |-> <<cells[firstWith(hits[k])], cells[hits[k]]>>]])

\* a findRowConflicts that reports only the current cell of each duplicate
findRowConflictsCurrentOnly(grid, row, config) ==
    LET found == groupConflicts(grid, AsSeq([i \in 1 .. config.size |-> <<row, i - 1>>]),
                                "row_duplicate")
    IN  AsSeq([k \in 1 .. Len(found) |->
                  [type |-> found[k].type, value |-> found[k].value,
                   positions |-> <<found[k].positions[2]>>]])

findRowConflicts(grid, row, config) ==
    groupConflicts(grid, AsSeq([i \in 1 .. config.size |-> <<row, i - 1>>]), "row_duplicate")

findColumnConflicts(grid, col, config) ==
    groupConflicts(grid, AsSeq([i \in 1 .. config.size |-> <<i - 1, col>>]), "column_duplicate")

findBoxConflicts(grid, startRow, startCol, config) ==
    groupConflicts(grid, boxCellSeq(startRow, startCol, config), "box_duplicate")

\* the body of findAllConflicts after the cache lookup
scanConflicts(grid, config) ==
    LET origins == boxOriginSeq(config)
        rowConflicts ==
            Flatten(AsSeq([i \in 1 .. config.size |-> findRowConflicts(grid, i - 1, config)]))
        columnConflicts ==
            Flatten(AsSeq([i \in 1 .. config.size |-> findColumnConflicts(grid, i - 1, config)]))
        boxConflicts ==
            Flatten(AsSeq([i \in 1 .. Len(origins) |->
                              findBoxConflicts(grid, origins[i][1], origins[i][2], config)]))
        all == rowConflicts \o columnConflicts \o boxConflicts
        conflictPositions ==
            UNION {{all[i].positions[k] : k \in 1 .. Len(all[i].positions)} : i \in 1 .. Len(all)}
    IN  [rowConflicts |-> rowConflicts,
         columnConflicts |-> columnConflicts,
         boxConflicts |-> boxConflicts,
         totalConflicts |-> Cardinality(conflictPositions),
         conflictPositions |-> conflictPositions]

RECURSIVE join(_, _)
join(strings, separator) ==
    IF Len(strings) = 0 THEN ""
    ELSE IF Len(strings) = 1 THEN strings[1]
    ELSE strings[1] \o separator \o join(Tail(strings), separator)

\* a hashGrid whose row loop starts one row late
hashGridSkippingFirstRow(grid) ==
    join(AsSeq([r \in 1 .. (Len(grid) - 1) |->
                   join(AsSeq([c \in 1 .. Len(grid[r + 1]) |-> ToString(grid[r + 1][c])]), ",")]),
         "|")

\* grid.map(row => row.join(',')).join('|')
hashGrid(grid) ==
    join(AsSeq([r \in 1 .. Len(grid) |->
                   join(AsSeq([c \in 1 .. Len(grid[r]) |-> ToString(grid[r][c])]), ",")]),
         "|")

\* findAllConflicts: [report, cache after the call, served from the cache]
findAllConflicts(grid, config, conflictCache) ==
    LET gridHash == hashGrid(grid)
        conflicts == scanConflicts(grid, config)
    IN  IF gridHash \in DOMAIN conflictCache
        THEN [report |-> conflictCache[gridHash], cache |-> conflictCache, cached |-> TRUE]
        ELSE [report |-> conflicts,
              cache |-> (gridHash :> conflicts) @@ conflictCache,
              cached |-> FALSE]

\* new Map()
EmptyMap == <<>>

\* ---- the caller: grids, edits and calls ----

Partial4 == <<<<0, 0, 1, 0>>, <<0, 0, 0, 2>>, <<1, 0, 0, 0>>, <<0, 2, 0, 0>>>>
Solved4 == <<<<1, 2, 3, 4>>, <<3, 4, 1, 2>>, <<2, 1, 4, 3>>, <<4, 3, 2, 1>>>>
Latin4 == <<<<1, 2, 3, 4>>, <<2, 3, 4, 1>>, <<3, 4, 1, 2>>, <<4, 1, 2, 3>>>>

ValidatorInputs ==
    {<<4, Partial4>>, <<4, Solved4>>, <<4, Latin4>>, <<6, Solution6A>>}

MaxEdits == 2

\* the cells and values the caller's edits draw from
EditCells == {<<0, 0>>, <<0, 1>>, <<1, 1>>}
EditValues == {0, 1, 2}

NoCall == [op |-> "none"]

VInit ==
    /\ \E in \in ValidatorInputs :
         /\ vSize = in[1]
         /\ vGrid = in[2]
    /\ vEdits = 0
    /\ vCache = EmptyMap
    /\ vCleared = FALSE
    /\ vLast = NoCall

\* the caller writes a cell of its grid: grid[row][col] = value
VSetCell ==
    /\ vEdits < MaxEdits
    /\ \E cell \in EditCells, value \in EditValues :
         /\ At(vGrid, cell[1], cell[2]) # value
         /\ vGrid' = Put(vGrid, cell[1], cell[2], value)
    /\ vEdits' = vEdits + 1
    /\ vLast' = NoCall
    /\ UNCHANGED <<vSize, vCache, vCleared>>
    /\ UNCHANGED notVal

\* validateMove and validateSolution change nothing in the validator; the
\* caller takes up one result at a time
VValidateMove ==
    /\ vLast = NoCall
    /\ \E cell \in Cells(gridConfigs[vSize]), value \in 0 .. (gridConfigs[vSize].maxValue + 1) :
         vLast' = [op |-> "validateMove", row |-> cell[1], col |-> cell[2], value |-> value,
                   result |-> validateMove(vGrid, cell[1], cell[2], value, gridConfigs[vSize])]
    /\ UNCHANGED <<vSize, vGrid, vEdits, vCache, vCleared>>
    /\ UNCHANGED notVal

VValidateSolution ==
    /\ vLast = NoCall
    /\ vLast' = [op |-> "validateSolution",
                 result |-> validateSolution(vGrid, gridConfigs[vSize])]
    /\ UNCHANGED <<vSize, vGrid, vEdits, vCache, vCleared>>
    /\ UNCHANGED notVal

VFindAllConflicts ==
    /\ LET call == findAllConflicts(vGrid, gridConfigs[vSize], vCache)
       IN  /\ vLast' = [op |-> "findAllConflicts", result |-> call.report,
                        cached |-> call.cached]
           /\ vCache' = call.cache
    /\ UNCHANGED <<vSize, vGrid, vEdits, vCleared>>
    /\ UNCHANGED notVal

\* clearCaches()
VClearCaches ==
    /\ vCache' = EmptyMap
    /\ vCleared' = TRUE
    /\ vLast' = NoCall
    /\ UNCHANGED <<vSize, vGrid, vEdits>>
    /\ UNCHANGED notVal

\* the caller is done with the result of the last call
VDiscard ==
    /\ vLast # NoCall
    /\ vLast' = NoCall
    /\ UNCHANGED <<vSize, vGrid, vEdits, vCache, vCleared>>
    /\ UNCHANGED notVal

ValidateNext == VSetCell \/ VValidateMove \/ VValidateSolution \/ VDiscard

ConflictsNext == VSetCell \/ VFindAllConflicts \/ VClearCaches

VIdle ==
    /\ vSize = 4
    /\ vGrid = NoGrid
    /\ vEdits = 0
    /\ vCache = EmptyMap
    /\ vCleared = FALSE
    /\ vLast = NoCall

(***************************************************************************)
(* SudokuValidator called with data that may be malformed.  A JavaScript   *)
(* grid argument is either an array of row arrays of any lengths, or null. *)
(* Reading an index past the end of an array yields undefined; reading a   *)
(* property of undefined or null throws a TypeError.                       *)
(***************************************************************************)

\* cell contents that are not integers: a number such as 1.5, and undefined
NotAnInteger == 1000
Undefined == 1001

isInteger(value) == value \notin {NotAnInteger, Undefined}

jsArray(rows) == [isArray |-> TRUE, rows |-> rows]
jsNull == [isArray |-> FALSE, rows |-> <<>>]

\* grid[row] is an array, so grid[row][c] can be evaluated
readable(g, row) == g.isArray /\ row >= 0 /\ row < Len(g.rows)

Max(a, b) == IF a > b THEN a ELSE b

\* what the reads grid[r][c] yield for r < height, c < width wherever
\* grid[r] is an array: the cell if the row holds one there, else undefined
\* (the rows that are missing are never read through this grid)
cellsRead(g, height, width) ==
    AsSeq([r \in 1 .. Max(height, Len(g.rows)) |->
        AsSeq([c \in 1 .. Max(width, IF r <= Len(g.rows) THEN Len(g.rows[r]) ELSE 0) |->
            IF r <= Len(g.rows) /\ c <= Len(g.rows[r]) THEN g.rows[r][c] ELSE Undefined])])

validationError(row, col) ==
    [type |-> "validation_error", position |-> <<row, col>>,
     conflictPosition |-> NoCell, value |-> 0]

\* validateCellConstraints with its try/catch: the row scan, the column scan
\* and the box scan stop at the first read of a row that is not there, and
\* the catch appends a validation_error to the conflicts found until then
validateCellConstraintsJs(g, row, col, value, config) ==
    LET boxRows == boxRowOf(row, config) .. (boxRowOf(row, config) + config.boxHeight - 1)
        reads == cellsRead(g, Max(config.size, boxRowOf(row, config) + config.boxHeight),
                           Max(config.size, boxColOf(col, config) + config.boxWidth))
        found == validateCellConstraints(reads, row, col, value, config)
        notBox(conflict) == conflict.type # "box_conflict"
    IN  IF value = 0 THEN <<>>
        ELSE IF ~readable(g, row) THEN <<validationError(row, col)>>
        ELSE IF \E r \in Idx(config) : r # row /\ ~readable(g, r)
        THEN SelectSeq(found, notBox) \o <<validationError(row, col)>>
        ELSE IF \E r \in boxRows : ~readable(g, r)
        THEN found \o <<validationError(row, col)>>
        ELSE found

getValidValuesJs(g, row, col, config) ==
    LET valid(value) == Len(validateCellConstraintsJs(g, row, col, value, config)) = 0
    IN  SelectSeq(AsSeq([i \in 1 .. config.maxValue |-> i]), valid)

\* generateMoveSuggestions: [threw, suggestions]; the filter over the
\* affected cells reads grid[r][c] and throws on a row that is not there
generateMoveSuggestionsJs(g, row, col, config) ==
    LET validValues == getValidValuesJs(g, row, col, config)
        affected == getAffectedCells(row, col, config)
        reads == cellsRead(g, Max(config.size, boxRowOf(row, config) + config.boxHeight),
                           Max(config.size, boxColOf(col, config) + config.boxWidth))
        affectedEmpty == {q \in affected : At(reads, q[1], q[2]) = 0}
    IN  IF \E q \in affected : ~readable(g, q[1])
        THEN [threw |-> TRUE, suggestions |-> <<>>]
        ELSE [threw |-> FALSE,
              suggestions |->
                (IF Len(validValues) > 0
                 THEN <<[type |-> "valid_values", values |-> validValues, positions |-> {}]>>
                 ELSE <<>>)
                \o (IF affectedEmpty # {}
                    THEN <<[type |-> "affected_cells", values |-> <<>>,
                            positions |-> affectedEmpty]>>
                    ELSE <<>>)]

\* validateMove with its try/catch: [threw, result]
validateMoveJs(g, row, col, value, size) ==
    LET config == gridConfigs[size]
        caught == [isValid |-> FALSE, conflicts |-> <<validationError(row, col)>>,
                   affectedCells |-> {}, suggestions |-> <<>>]
        cellConflicts == validateCellConstraintsJs(g, row, col, value, config)
        suggested == generateMoveSuggestionsJs(g, row, col, config)
    IN  IF size \notin DOMAIN gridConfigs
        THEN [threw |-> FALSE, result |-> caught]
        ELSE IF value # 0 /\ (value < 1 \/ value > config.maxValue)
        THEN [threw |-> FALSE,
              result |-> [isValid |-> FALSE,
                          conflicts |-> <<[type |-> "invalid_value", position |-> <<row, col>>,
                                           conflictPosition |-> NoCell, value |-> value]>>,
                          affectedCells |-> {}, suggestions |-> <<>>]]
        ELSE IF Len(cellConflicts) = 0
        THEN [threw |-> FALSE,
              result |-> [isValid |-> TRUE, conflicts |-> <<>>,
                          affectedCells |-> getAffectedCells(row, col, config),
                          suggestions |-> <<>>]]
        ELSE IF suggested.threw
        THEN [threw |-> FALSE, result |-> caught]
        ELSE [threw |-> FALSE,
              result |-> [isValid |-> FALSE, conflicts |-> cellConflicts,
                          affectedCells |-> getAffectedCells(row, col, config),
                          suggestions |-> suggested.suggestions]]

validateGridStructureJs(g, config) ==
    /\ g.isArray
    /\ Len(g.rows) = config.size
    /\ \A r \in 1 .. Len(g.rows) :
         /\ Len(g.rows[r]) = config.size
         /\ \A c \in 1 .. Len(g.rows[r]) :
              isInteger(g.rows[r][c]) /\ g.rows[r][c] >= 0 /\ g.rows[r][c] <= config.maxValue

\* grid.length * grid[0].length and grid.flat().filter(cell => cell !== 0).length
calculateCompletenessJs(g) ==
    [filledCells |-> Cardinality({q \in (1 .. Len(g.rows)) \X (1 .. 16) :
                                    q[2] <= Len(g.rows[q[1]]) /\ g.rows[q[1]][q[2]] # 0}),
     totalCells |-> Len(g.rows) * Len(g.rows[1])]

\* validateSolution with its try/catch: [threw, result]
validateSolutionJs(g, size) ==
    LET config == gridConfigs[size]
        caught(message) == [isValid |-> FALSE, errors |-> <<"Validation error: " \o message>>,
                            conflicts |-> <<>>,
                            completeness |-> [filledCells |-> 0, totalCells |-> 1]]
    IN  IF size \notin DOMAIN gridConfigs
        THEN [threw |-> FALSE, result |-> caught("Unsupported grid size")]
        ELSE IF ~g.isArray \/ Len(g.rows) = 0
        THEN [threw |-> FALSE, result |-> caught("Cannot read properties")]
        ELSE IF ~validateGridStructureJs(g, config)
        THEN [threw |-> FALSE,
              result |-> [isValid |-> FALSE, errors |-> <<"Invalid grid structure">>,
                          conflicts |-> <<>>, completeness |-> calculateCompletenessJs(g)]]
        ELSE [threw |-> FALSE, result |-> validateSolution(g.rows, config)]

\* findAllConflicts on a validator whose cache is empty: hashGrid calls
\* grid.map, the scans read grid[row][col] for every row below size, and the
\* catch throws a new Error('Conflict detection failed: ...')
findAllConflictsJs(g, size) ==
    LET config == gridConfigs[size]
    IN  IF ~g.isArray \/ size \notin DOMAIN gridConfigs
        THEN [threw |-> TRUE, result |-> <<>>]
        ELSE IF \E r \in Idx(config) : ~readable(g, r)
        THEN [threw |-> TRUE, result |-> <<>>]
        ELSE [threw |-> FALSE,
              result |-> scanConflicts(cellsRead(g, config.size, config.size), config)]

ShortRow4 == <<<<1, 2, 3, 4>>, <<3, 4, 1, 2>>, <<2, 1, 4>>, <<4, 3, 2, 1>>>>
Fractional4 == <<<<1, 2, 3, 4>>, <<3, NotAnInteger, 1, 2>>, <<2, 1, 4, 3>>, <<4, 3, 2, 1>>>>
OutOfRange4 == <<<<1, 2, 3, 4>>, <<3, 4, 1, 2>>, <<2, 1, 9, 3>>, <<4, 3, 2, 1>>>>

\* the grid arguments: well formed, not an array, empty, with fewer or more
\* rows than size 4, with a short row, with a non-integer cell and with an
\* out-of-range cell
MalformedInputs ==
    {jsArray(Partial4), jsArray(Solved4), jsNull, jsArray(<<>>),
     jsArray(SubSeq(Solved4, 1, 3)), jsArray(SubSeq(Partial4, 1, 2)),
     jsArray(Solved4 \o <<<<1, 2, 3, 4>>>>),
     jsArray(ShortRow4), jsArray(Fractional4), jsArray(OutOfRange4)}

\* the size arguments: a supported one and an unsupported one
MalformedSizes == {4, 5}

MInit ==
    /\ mGrid \in MalformedInputs
    /\ mLast = NoCall

MValidateSolution ==
    /\ mLast = NoCall
    /\ \E size \in MalformedSizes :
         LET out == validateSolutionJs(mGrid, size)
         IN  mLast' = [op |-> "validateSolution", size |-> size, row |-> 0, col |-> 0,
                       value |-> 0, threw |-> out.threw, result |-> out.result]
    /\ UNCHANGED <<mGrid, notMal>>

\* the target runs one past the grid in each direction, the value one past
\* maxValue
MValidateMove ==
    /\ mLast = NoCall
    /\ \E size \in MalformedSizes, row \in 0 .. 4, col \in 0 .. 4, value \in 0 .. 5 :
         LET out == validateMoveJs(mGrid, row, col, value, size)
         IN  mLast' = [op |-> "validateMove", size |-> size, row |-> row, col |-> col,
                       value |-> value, threw |-> out.threw, result |-> out.result]
    /\ UNCHANGED <<mGrid, notMal>>

MFindAllConflicts ==
    /\ mLast = NoCall
    /\ \E size \in MalformedSizes :
         LET out == findAllConflictsJs(mGrid, size)
         IN  mLast' = [op |-> "findAllConflicts", size |-> size, row |-> 0, col |-> 0,
                       value |-> 0, threw |-> out.threw, result |-> out.result]
    /\ UNCHANGED <<mGrid, notMal>>

\* the caller drops the result and calls again
MDiscard ==
    /\ mLast # NoCall
    /\ mLast' = NoCall
    /\ UNCHANGED <<mGrid, notMal>>

MalformedNext == MValidateSolution \/ MValidateMove \/ MFindAllConflicts \/ MDiscard

MIdle == mGrid = jsNull /\ mLast = NoCall

(***************************************************************************)
(* SudokuHints: the hint engine.  Hints are records; a confidence is kept  *)
(* in hundredths (1.0 is 100).                                             *)
(***************************************************************************)

hintLevels == [highlight |-> 1, suggestion |-> 2, technique |-> 3, solution |-> 4]

\* SudokuHints.isValidPlacement
hintsIsValidPlacement(grid, row, col, value, config) ==
    /\ \A c \in Idx(config) : ~(c # col /\ At(grid, row, c) = value)
    /\ \A r \in Idx(config) : ~(r # row /\ At(grid, r, col) = value)
    /\ \A r \in boxRowOf(row, config) .. (boxRowOf(row, config) + config.boxHeight - 1),
          c \in boxColOf(col, config) .. (boxColOf(col, config) + config.boxWidth - 1) :
            ~((r # row \/ c # col) /\ At(grid, r, c) = value)

getPossibleValues(grid, row, col, config) ==
    LET possible(value) == hintsIsValidPlacement(grid, row, col, value, config)
    IN  IF At(grid, row, col) # 0 THEN <<>>
        ELSE SelectSeq(AsSeq([i \in 1 .. config.maxValue |-> i]), possible)

isHiddenSingle(grid, row, col, value, config) ==
    LET canPlace(q) == /\ At(grid, q[1], q[2]) = 0
                       /\ hintsIsValidPlacement(grid, q[1], q[2], value, config)
        canPlaceInRow == Cardinality({c \in Idx(config) : canPlace(<<row, c>>)})
        canPlaceInCol == Cardinality({r \in Idx(config) : canPlace(<<r, col>>)})
        canPlaceInBox ==
            Cardinality({q \in (boxRowOf(row, config) .. (boxRowOf(row, config) + config.boxHeight - 1))
                               \X (boxColOf(col, config) .. (boxColOf(col, config) + config.boxWidth - 1)) :
                           canPlace(q)})
    IN  canPlaceInRow = 1 \/ canPlaceInCol = 1 \/ canPlaceInBox = 1

identifyTechniques(grid, row, col, value, config) ==
    (IF Len(getPossibleValues(grid, row, col, config)) = 1 THEN <<"nakedSingle">> ELSE <<>>)
    \o (IF isHiddenSingle(grid, row, col, value, config) THEN <<"hiddenSingle">> ELSE <<>>)

\* the moves in the order the loops push them: row by row, cell by cell,
\* value by value
movesOfCell(grid, q, config) ==
    LET possibleValues == getPossibleValues(grid, q[1], q[2], config)
    IN  AsSeq([i \in 1 .. Len(possibleValues) |->
                  [position |-> q, value |-> possibleValues[i],
                   candidates |-> Len(possibleValues),
                   techniques |-> identifyTechniques(grid, q[1], q[2], possibleValues[i], config)]])

\* analyzePossibleMoves without its final sort
analyzePossibleMovesUnsorted(grid, config) ==
    LET cells == AsSeq([k \in 1 .. (config.size * config.size) |-> cellAt(k - 1, config)])
    IN  Flatten(AsSeq([i \in 1 .. Len(cells) |->
                          IF At(grid, cells[i][1], cells[i][2]) = 0
                          THEN movesOfCell(grid, cells[i], config) ELSE <<>>]))

\* Array.prototype.sort is stable: fewer candidates first, then fewer
\* techniques, and the push order among equals
analyzePossibleMoves(grid, config) ==
    LET cells == AsSeq([k \in 1 .. (config.size * config.size) |-> cellAt(k - 1, config)])
        moves == Flatten(AsSeq([i \in 1 .. Len(cells) |->
                                   IF At(grid, cells[i][1], cells[i][2]) = 0
                                   THEN movesOfCell(grid, cells[i], config) ELSE <<>>]))
        keys == AsSeq([k \in 1 .. (config.maxValue * 3) |-> <<((k - 1) \div 3) + 1, (k - 1) % 3>>])
        withKey(key) ==
            LET has(move) == move.candidates = key[1] /\ Len(move.techniques) = key[2]
            IN  SelectSeq(moves, has)
    IN  Flatten(AsSeq([k \in 1 .. Len(keys) |-> withKey(keys[k])]))

\* Array.from(related): the Set keeps one entry per cell
getRelatedCells(row, col, config) ==
    {<<row, c>> : c \in {x \in Idx(config) : x # col}}
    \cup {<<r, col>> : r \in {x \in Idx(config) : x # row}}
    \cup {q \in (boxRowOf(row, config) .. (boxRowOf(row, config) + config.boxHeight - 1))
                \X (boxColOf(col, config) .. (boxColOf(col, config) + config.boxWidth - 1)) :
            q[1] # row \/ q[2] # col}

getCellRelationship(row1, col1, row2, col2, config) ==
    IF row1 = row2 THEN "same_row"
    ELSE IF col1 = col2 THEN "same_column"
    ELSE IF /\ row1 \div config.boxHeight = row2 \div config.boxHeight
            /\ col1 \div config.boxWidth = col2 \div config.boxWidth
    THEN "same_box"
    ELSE "unrelated"

findEliminatedCandidates(grid, row, col, value, config) ==
    {[position |-> q, value |-> value,
      reason |-> getCellRelationship(row, col, q[1], q[2], config)] :
        q \in {p \in getRelatedCells(row, col, config) :
                 /\ At(grid, p[1], p[2]) = 0
                 /\ \E i \in 1 .. Len(getPossibleValues(grid, p[1], p[2], config)) :
                      getPossibleValues(grid, p[1], p[2], config)[i] = value}}

calculateConfidence(grid, row, col, value, config) ==
    LET techniques == identifyTechniques(grid, row, col, value, config)
        candidates == getPossibleValues(grid, row, col, config)
    IN  IF Len(candidates) = 1 THEN 100
        ELSE IF \E i \in 1 .. Len(techniques) : techniques[i] = "hiddenSingle" THEN 95
        ELSE IF Len(techniques) > 0 THEN 80
        ELSE 50

createHighlightHint(grid, move, config) ==
    [type |-> "highlight",
     message |-> "Pay attention to the highlighted cells and their relationships.",
     level |-> hintLevels.highlight,
     targetCell |-> move.position,
     highlightCells |-> getRelatedCells(move.position[1], move.position[2], config),
     techniques |-> <<"observation">>]

createSuggestionHint(grid, move, config) ==
    LET possibleValues == getPossibleValues(grid, move.position[1], move.position[2], config)
    IN  [type |-> "suggestion",
         message |-> "Cell (" \o ToString(move.position[1] + 1) \o ", "
                     \o ToString(move.position[2] + 1) \o ") has "
                     \o ToString(Len(possibleValues)) \o " possible values",
         level |-> hintLevels.suggestion,
         targetCell |-> move.position,
         candidates |-> possibleValues,
         highlightCells |-> getRelatedCells(move.position[1], move.position[2], config),
         techniques |-> move.techniques]

createTechniqueHint(grid, move, config) ==
    LET technique == IF Len(move.techniques) > 0 THEN move.techniques[1] ELSE "nakedSingle"
    IN  [type |-> "technique",
         message |-> IF technique = "nakedSingle"
                     THEN "Cell can only be " \o ToString(move.value)
                     ELSE "Cell must be " \o ToString(move.value),
         level |-> hintLevels.technique,
         targetCell |-> move.position,
         technique |-> technique,
         value |-> move.value,
         highlightCells |-> getRelatedCells(move.position[1], move.position[2], config),
         eliminatedCandidates |->
             findEliminatedCandidates(grid, move.position[1], move.position[2],
                                      move.value, config)]

createSolutionHint(grid, move, config) ==
    [type |-> "solution",
     message |-> "Place " \o ToString(move.value) \o " in cell ("
                 \o ToString(move.position[1] + 1) \o ", "
                 \o ToString(move.position[2] + 1) \o ")",
     level |-> hintLevels.solution,
     targetCell |-> move.position,
     value |-> move.value,
     technique |-> IF Len(move.techniques) > 0 THEN move.techniques[1] ELSE "nakedSingle",
     confidence |-> calculateConfidence(grid, move.position[1], move.position[2],
                                        move.value, config)]

findBestHint(grid, config, moves, level) ==
    LET easiestMove == moves[1]
    IN  IF level = hintLevels.highlight THEN createHighlightHint(grid, easiestMove, config)
        ELSE IF level = hintLevels.suggestion THEN createSuggestionHint(grid, easiestMove, config)
        ELSE IF level = hintLevels.technique THEN createTechniqueHint(grid, easiestMove, config)
        ELSE IF level = hintLevels.solution THEN createSolutionHint(grid, easiestMove, config)
        ELSE createHighlightHint(grid, easiestMove, config)

\* the body of getHint on a grid whose cells can all be read:
\* [hint, hintHistory after the call]; the timestamp of a history entry is
\* left out
\* a getHint that only pushes to the history when the level is Solution
getHintBodySolutionOnly(grid, config, hintLevel, history, gridState) ==
    LET possibleMoves == analyzePossibleMoves(grid, config)
        hint == findBestHint(grid, config, possibleMoves, hintLevel)
    IN  IF Len(possibleMoves) = 0
        THEN [hint |-> [type |-> "no_moves",
                        message |-> "No obvious moves available. The puzzle may require advanced techniques.",
                        level |-> hintLevel, techniques |-> <<>>],
              hintHistory |-> history]
        ELSE [hint |-> hint,
              hintHistory |-> IF hintLevel = hintLevels.solution
                              THEN Append(history, [hint |-> hint, level |-> hintLevel,
                                                    gridState |-> gridState])
                              ELSE history]

getHintBody(grid, config, hintLevel, history, gridState) ==
    LET possibleMoves == analyzePossibleMoves(grid, config)
        hint == findBestHint(grid, config, possibleMoves, hintLevel)
    IN  IF Len(possibleMoves) = 0
        THEN [hint |-> [type |-> "no_moves",
                        message |-> "No obvious moves available. The puzzle may require advanced techniques.",
                        level |-> hintLevel, techniques |-> <<>>],
              hintHistory |-> history]
        ELSE [hint |-> hint,
              hintHistory |-> Append(history, [hint |-> hint, level |-> hintLevel,
                                               gridState |-> gridState])]

\* getHint with its try/catch; level 0 stands for the omitted (null) level.
\* analyzePossibleMoves reads grid[row][col] for every row and col below
\* size, and nothing after it reads another row.
getHint(g, size, level, current, history) ==
    LET config == gridConfigs[size]
        hintLevel == IF level = 0 THEN current ELSE level
        error(message) == [hint |-> [type |-> "error",
                                     message |-> "Hint generation failed: " \o message,
                                     level |-> 1, techniques |-> <<>>],
                           hintHistory |-> history]
    IN  IF size \notin DOMAIN gridConfigs THEN error("Unsupported grid size")
        ELSE IF \E r \in Idx(config) : ~readable(g, r) THEN error("Cannot read properties")
        ELSE getHintBody(cellsRead(g, config.size, config.size), config, hintLevel,
                         history, hashGrid(g.rows))

\* grid[q[1]][q[2]] where grid[q[1]] is an array
jsCell(g, q) ==
    IF q[2] >= 0 /\ q[2] < Len(g.rows[q[1] + 1]) THEN g.rows[q[1] + 1][q[2] + 1] ELSE Undefined

\* isValidPlacement read by read: "true", "false" at the first cell that
\* holds the value, "throws" at the first read of a row that is not there
placementOutcome(g, row, col, value, config) ==
    LET notCol(q) == q[2] # col
        notRow(q) == q[1] # row
        notCell(q) == q[1] # row \/ q[2] # col
        reads == SelectSeq(AsSeq([i \in 1 .. config.size |-> <<row, i - 1>>]), notCol)
                 \o SelectSeq(AsSeq([i \in 1 .. config.size |-> <<i - 1, col>>]), notRow)
                 \o SelectSeq(boxCellSeq(boxRowOf(row, config), boxColOf(col, config), config),
                              notCell)
        stops(i) == ~readable(g, reads[i][1]) \/ jsCell(g, reads[i]) = value
        first == CHOOSE i \in 1 .. Len(reads) : stops(i) /\ \A j \in 1 .. (i - 1) : ~stops(j)
    IN  IF \A i \in 1 .. Len(reads) : ~stops(i) THEN "true"
        ELSE IF ~readable(g, reads[first][1]) THEN "throws"
        ELSE "false"

findCellConflicts(grid, row, col, config) ==
    {[position |-> q, value |-> At(grid, q[1], q[2]),
      relationship |-> getCellRelationship(row, col, q[1], q[2], config)] :
        q \in {p \in getRelatedCells(row, col, config) : At(grid, p[1], p[2]) # 0}}

NoHint == [type |-> "null"]

checkHiddenSingle(grid, row, col, config) ==
    LET candidates == getPossibleValues(grid, row, col, config)
        hidden(value) == isHiddenSingle(grid, row, col, value, config)
        found == SelectSeq(candidates, hidden)
    IN  IF Len(found) = 0 THEN NoHint
        ELSE [type |-> "hidden_single",
              message |-> "Cell must be " \o ToString(found[1]) \o " (Hidden Single)",
              position |-> <<row, col>>, value |-> found[1], technique |-> "hiddenSingle"]

suggestTechniques(grid, row, col, config) ==
    LET candidates == getPossibleValues(grid, row, col, config)
    IN  IF Len(candidates) = 1 THEN <<"Look for naked singles">>
        ELSE IF Len(candidates) = 2 THEN <<"Consider naked pairs or hidden pairs">>
        ELSE <<"Look for elimination techniques", "Consider advanced solving methods">>

\* getCellHint from getPossibleValues on, for an empty cell of a grid whose
\* cells around the target can all be read
getCellHintBody(grid, row, col, config) ==
    LET possibleValues == getPossibleValues(grid, row, col, config)
        hiddenSingle == checkHiddenSingle(grid, row, col, config)
    IN  IF Len(possibleValues) = 0
        THEN [type |-> "no_valid_values",
              message |-> "No valid values for this cell. Check for conflicts.",
              position |-> <<row, col>>,
              conflicts |-> findCellConflicts(grid, row, col, config)]
        ELSE IF Len(possibleValues) = 1
        THEN [type |-> "naked_single",
              message |-> "This cell can only be " \o ToString(possibleValues[1])
                          \o " (Naked Single)",
              position |-> <<row, col>>, value |-> possibleValues[1],
              technique |-> "nakedSingle"]
        ELSE IF hiddenSingle # NoHint THEN hiddenSingle
        ELSE [type |-> "multiple_candidates",
              message |-> "This cell has " \o ToString(Len(possibleValues))
                          \o " possible values",
              position |-> <<row, col>>, candidates |-> possibleValues,
              techniques |-> suggestTechniques(grid, row, col, config)]

\* getCellHint with its try/catch.  The size is not checked: config is
\* first used by getPossibleValues, after the test of grid[row][col].
getCellHint(g, row, col, size) ==
    LET config == gridConfigs[size]
        error(message) == [type |-> "error", message |-> message, position |-> <<row, col>>]
        reads == cellsRead(g, Max(config.size, boxRowOf(row, config) + config.boxHeight),
                           Max(config.size, boxColOf(col, config) + config.boxWidth))
    IN  IF ~readable(g, row) THEN error("Cannot read properties")
        ELSE IF jsCell(g, <<row, col>>) # 0
        THEN [type |-> "cell_filled", message |-> "This cell is already filled",
              position |-> <<row, col>>, value |-> jsCell(g, <<row, col>>)]
        ELSE IF size \notin DOMAIN gridConfigs THEN error("Cannot read properties")
        ELSE IF \E value \in 1 .. config.maxValue :
                  placementOutcome(g, row, col, value, config) = "throws"
        THEN error("Cannot read properties")
        ELSE IF \E q \in getRelatedCells(row, col, config) : ~readable(g, q[1])
        THEN error("Cannot read properties")
        ELSE getCellHintBody(reads, row, col, config)

increaseHintLevelUnchecked(current) == current + 1

increaseHintLevel(current) ==
    IF current < hintLevels.solution THEN current + 1 ELSE current

decreaseHintLevel(current) ==
    IF current > hintLevels.highlight THEN current - 1 ELSE current

resetHintLevel == hintLevels.highlight

\* ---- the game: grids and calls ----

Mixed4 == <<<<0, 0, 0, 0>>, <<0, 0, 1, 2>>, <<2, 1, 4, 3>>, <<4, 3, 2, 1>>>>
Stuck4 == <<<<0, 1, 2, 3>>, <<4, 0, 0, 0>>, <<0, 0, 0, 0>>, <<0, 0, 0, 0>>>>
Gapped4 == <<<<1, 2, 3, 4>>, <<3, 4, 0>>, <<2, 1, 4, 3>>, <<4, 3, 2, 1>>>>
Mixed6 == Put(Put(Put(Solution6A, 0, 0, 0), 0, 1, 0), 3, 4, 0)

\* a 6x6 grid whose only completion is Solution6B and in which every empty
\* cell has two candidates or more
Guess6 == <<<<0, 2, 0, 4, 0, 1>>, <<1, 0, 0, 0, 5, 2>>, <<5, 3, 0, 2, 1, 0>>,
           <<0, 1, 2, 0, 0, 0>>, <<0, 0, 0, 5, 0, 3>>, <<2, 5, 3, 0, 0, 0>>>>

HintInputs ==
    {jsArray(Partial4), jsArray(Solved4), jsArray(Mixed4), jsArray(Stuck4),
     jsArray(createEmptyGrid(4)), jsArray(Mixed6), jsArray(Guess6),
     jsNull, jsArray(SubSeq(Mixed4, 1, 3)), jsArray(Gapped4),
     jsArray(Mixed4 \o <<<<0, 0, 0, 0, 0>>>>)}

\* the size arguments: two supported ones and an unsupported one
HintSizes == {4, 5, 6}

\* the level arguments: omitted, the four levels and one past them
HintLevelArgs == {0, 1, 2, 3, 4, 7}

MaxHistory == 1

HInit ==
    /\ hGrid \in HintInputs
    /\ currentHintLevel = hintLevels.highlight
    /\ hintHistory = <<>>
    /\ hLast = NoCall

\* one getHint call with its arguments drawn from the given sets
GetHintCall(sizes, levels, limit) ==
    /\ hLast = NoCall
    /\ \E size \in sizes, level \in levels :
         LET out == getHint(hGrid, size, level, currentHintLevel, hintHistory)
         IN  /\ Len(out.hintHistory) <= limit
             /\ hintHistory' = out.hintHistory
             /\ hLast' = [op |-> "getHint", size |-> size, level |-> level,
                          row |-> 0, col |-> 0, result |-> out.hint]
    /\ UNCHANGED <<hGrid, currentHintLevel, notHint>>

HGetHint == GetHintCall(HintSizes, HintLevelArgs, MaxHistory)

\* one getCellHint call with its arguments drawn from the given sets
GetCellHintCall(sizes, rows, cols) ==
    /\ hLast = NoCall
    /\ \E size \in sizes, row \in rows, col \in cols :
         hLast' = [op |-> "getCellHint", size |-> size, level |-> 0,
                   row |-> row, col |-> col, result |-> getCellHint(hGrid, row, col, size)]
    /\ UNCHANGED <<hGrid, currentHintLevel, hintHistory, notHint>>

HGetCellHint == GetCellHintCall(HintSizes, 0 .. 4, 0 .. 4)

HIncreaseHintLevel ==
    /\ hLast = NoCall
    /\ currentHintLevel' = increaseHintLevel(currentHintLevel)
    /\ hLast' = [op |-> "increaseHintLevel", result |-> currentHintLevel']
    /\ UNCHANGED <<hGrid, hintHistory, notHint>>

HDecreaseHintLevel ==
    /\ hLast = NoCall
    /\ currentHintLevel' = decreaseHintLevel(currentHintLevel)
    /\ hLast' = [op |-> "decreaseHintLevel", result |-> currentHintLevel']
    /\ UNCHANGED <<hGrid, hintHistory, notHint>>

HResetHintLevel ==
    /\ hLast = NoCall
    /\ currentHintLevel' = resetHintLevel
    /\ hLast' = [op |-> "resetHintLevel", result |-> currentHintLevel']
    /\ UNCHANGED <<hGrid, hintHistory, notHint>>

\* the game takes the returned value and calls again
HDiscard ==
    /\ hLast # NoCall
    /\ hLast' = NoCall
    /\ UNCHANGED <<hGrid, currentHintLevel, hintHistory, notHint>>

HintNext ==
    \/ HGetHint \/ HGetCellHint
    \/ HIncreaseHintLevel \/ HDecreaseHintLevel \/ HResetHintLevel
    \/ HDiscard

HIdle ==
    /\ hGrid = jsNull
    /\ currentHintLevel = hintLevels.highlight
    /\ hintHistory = <<>>
    /\ hLast = NoCall

(***************************************************************************)
(* SudokuValidator.checkUniqueness                                         *)
(***************************************************************************)

\* SudokuValidator.findEmptyCell: first empty cell in row-major order
validatorFindEmptyCell(grid, config) ==
    LET empties == {p \in Cells(config) : At(grid, p[1], p[2]) = 0}
    IN  IF empties = {} THEN NoCell
        ELSE CHOOSE p \in empties :
                \A q \in empties : RowMajor(p, config) <= RowMajor(q, config)

RECURSIVE validatorCountSolutions(_, _, _, _)
RECURSIVE validatorCountSolutionsFrom(_, _, _, _, _, _)

\* SudokuValidator.countSolutions: the model carries solutions.length (n)
\* and returns its value after the call
validatorCountSolutions(grid, config, n, maxSolutions) ==
    IF n >= maxSolutions THEN n
    ELSE LET emptyCell == validatorFindEmptyCell(grid, config)
         IN  IF emptyCell = NoCell THEN n + 1
             ELSE validatorCountSolutionsFrom(grid, config, n, maxSolutions, emptyCell, 1)

\* its loop over the values, left by the break once maxSolutions are found
validatorCountSolutionsFrom(grid, config, n, maxSolutions, cell, value) ==
    IF value > config.maxValue THEN n
    ELSE IF Len(validateCellConstraints(grid, cell[1], cell[2], value, config)) = 0
         THEN LET after == validatorCountSolutions(Put(grid, cell[1], cell[2], value),
                                                   config, n, maxSolutions)
              IN  IF after >= maxSolutions THEN after
                  ELSE validatorCountSolutionsFrom(grid, config, after, maxSolutions,
                                                   cell, value + 1)
         ELSE validatorCountSolutionsFrom(grid, config, n, maxSolutions, cell, value + 1)

\* checkUniqueness works on a copy, grid.map(row => [...row])
checkUniqueness(grid, config) ==
    LET solutionCount == validatorCountSolutions(grid, config, 0, 2)
    IN  [hasUniqueSolution |-> solutionCount = 1,
         solutionCount |-> solutionCount,
         isValid |-> solutionCount > 0,
         analysis |-> IF solutionCount = 0 THEN "No solutions exist"
                      ELSE IF solutionCount = 1 THEN "Unique solution exists"
                      ELSE "Multiple solutions exist"]

VCheckUniqueness ==
    /\ vLast = NoCall
    /\ vLast' = [op |-> "checkUniqueness",
                 result |-> checkUniqueness(vGrid, gridConfigs[vSize])]
    /\ UNCHANGED <<vSize, vGrid, vEdits, vCache, vCleared>>
    /\ UNCHANGED notVal

UniquenessNext == VSetCell \/ VCheckUniqueness \/ VDiscard

----------------------------------------------------------------------------
(* Specifications                                                          *)

InitPuzzle == PzInit /\ WkIdle /\ WpIdle /\ BfIdle /\ EngIdle /\ VIdle /\ MIdle /\ HIdle
SpecPuzzle == InitPuzzle /\ [][PzNext]_vars

InitWorker == WkInit /\ PzIdle /\ WpIdle /\ BfIdle /\ EngIdle /\ VIdle /\ MIdle /\ HIdle
SpecWorker == InitWorker /\ [][WkNext]_vars

InitWorkerPuzzle == WpInit /\ PzIdle /\ WkIdle /\ BfIdle /\ EngIdle /\ VIdle /\ MIdle /\ HIdle
SpecWorkerPuzzle == InitWorkerPuzzle /\ [][WpNext]_vars

InitFill == BfInit /\ PzIdle /\ WkIdle /\ WpIdle /\ EngIdle /\ VIdle /\ MIdle /\ HIdle
SpecFill == InitFill /\ [][BfNext]_vars

InitEngine == EngInit /\ PzIdle /\ WkIdle /\ WpIdle /\ BfIdle /\ VIdle /\ MIdle /\ HIdle
SpecEngine == InitEngine /\ [][EngNext]_vars

InitValidate == VInit /\ PzIdle /\ WkIdle /\ WpIdle /\ BfIdle /\ EngIdle /\ MIdle /\ HIdle
SpecValidate == InitValidate /\ [][ValidateNext]_vars

InitConflicts == VInit /\ PzIdle /\ WkIdle /\ WpIdle /\ BfIdle /\ EngIdle /\ MIdle /\ HIdle
SpecConflicts == InitConflicts /\ [][ConflictsNext]_vars

\* The event loop runs the continuation of every settled await and every
\* expired timer, so the fill never stops while a step is enabled.
SpecFillFair == SpecFill /\ WF_vars(BfNext)

----------------------------------------------------------------------------
(* Properties                                                              *)

\* C1: the clue grid returned by the in-process createPuzzleFromSolution has
\* exactly one completion under the row, column and box rules, and that
\* completion is the solution it was derived from.
C1_ReturnedPuzzleUnique ==
    pzPc = "done" => Completions(pzPuzzle, pzConfig) = {pzSolution}

\* C2: the clue grid the worker's createPuzzleFromSolution returns for a
\* solved grid has exactly one completion, the solution itself.
C2_WorkerPuzzleUnique ==
    wpPc = "returned" => Completions(wpPuzzle, wpConfig) = {wpSolution}

\* C3: the in-process generateCompleteSolution terminates, does not raise
\* 'Failed to generate complete solution', and returns a grid with no empty
\* cell in which every row, column and box holds each value exactly once.
C3_FillReturnsSolvedGrid ==
    <>(bfPc = "done" /\ IsSolved(bfGrid, bfConfig))

\* generateCompleteSolution returned a solved 9x9 grid
C3_Witness ==
    /\ bfPc = "done"
    /\ bfConfig.size = 9
    /\ IsSolved(bfGrid, bfConfig)

\* C4: the worker answers the {config, difficultyConfig} message with a
\* puzzle message whose solution is a complete grid satisfying every row,
\* column and box rule.
C4_WorkerAnswersWithSolvedGrid ==
    wkPc = "answered" =>
        /\ wkPosted[1].kind = "puzzle"
        /\ IsSolved(wkPosted[1].solution, wkData.config)

\* C5: on the worker path every request's promise is settled by the worker's
\* answer to the message that request posted, never by the answer to the
\* message of another request.
C5_SettledByOwnAnswer ==
    \A id \in 1 .. Len(engRequests) :
        engRequests[id].via = "worker" => engRequests[id].answerFor = id

\* C10: a generatePuzzle call whose size is not one of 4, 6, 9, 16 or whose
\* difficulty is not one of easy, medium, hard, hardcore is rejected, with no
\* message posted to the worker and no grid or domain created for it.
C10_UnsupportedRejectedEarly ==
    \A id \in 1 .. Len(engRequests) :
        (\/ engRequests[id].size \notin gridConfigKeys
         \/ engRequests[id].difficulty \notin DOMAIN difficulties)
            => /\ engRequests[id].status = "rejected"
               /\ ~engRequests[id].posted
               /\ engRequests[id].grids = 0

\* ---- reference notions for the validator ----

\* the cells other than p in p's row, column or box that hold value
Holders(grid, p, value, config) ==
    {q \in Peers(p, config) : At(grid, q[1], q[2]) = value}

\* the cells whose non-zero value also occurs in another cell of the same
\* row, column or box
ConflictCells(grid, config) ==
    {p \in Cells(config) :
        /\ At(grid, p[1], p[2]) # 0
        /\ Holders(grid, p, At(grid, p[1], p[2]), config) # {}}

\* the conflictPosition entries of a validateMove result
ReportedPositions(result) ==
    {result.conflicts[i].conflictPosition : i \in 1 .. Len(result.conflicts)}

\* C6: validateMove with a value in 1..maxValue is invalid exactly when a
\* cell other than the target in its row, column or box holds the value (the
\* target's own content is ignored), and the conflictPositions reported are
\* exactly those cells.
C6_ValidateMoveReportsHolders ==
    (vLast.op = "validateMove" /\ vLast.value \in 1 .. gridConfigs[vSize].maxValue)
        => LET holders == Holders(vGrid, <<vLast.row, vLast.col>>, vLast.value, gridConfigs[vSize])
           IN  /\ vLast.result.isValid = (holders = {})
               /\ ReportedPositions(vLast.result) = holders

\* validateMove was asked about the value the target cell already holds, which
\* no other cell of its groups holds, after an edit
C6_WitnessOwnValue ==
    /\ vLast.op = "validateMove"
    /\ vEdits > 0
    /\ vLast.value # 0
    /\ At(vGrid, vLast.row, vLast.col) = vLast.value
    /\ vLast.result.isValid

\* C7: validateSolution returns isValid true exactly when the grid has no
\* zero and every row, column and box holds each value 1..maxValue exactly
\* once; then completeness is 1 and the conflicts and errors lists are empty.
C7_ValidateSolutionIffSolved ==
    vLast.op = "validateSolution"
        => /\ vLast.result.isValid = IsSolved(vGrid, gridConfigs[vSize])
           /\ vLast.result.isValid
                => /\ vLast.result.completeness.filledCells
                        = vLast.result.completeness.totalCells
                   /\ vLast.result.conflicts = <<>>
                   /\ vLast.result.errors = <<>>

\* validateSolution accepted a solved grid
C7_WitnessSolved ==
    /\ vLast.op = "validateSolution"
    /\ vLast.result.isValid
    /\ IsSolved(vGrid, gridConfigs[vSize])

\* C8: findAllConflicts reports totalConflicts = 0 exactly when no non-zero
\* value occurs twice in a row, column or box; conflictPositions is exactly
\* the set of cells whose value occurs in another cell of one of their
\* groups, and totalConflicts is the size of that set.
C8_ConflictPositionsExact ==
    vLast.op = "findAllConflicts"
        => /\ vLast.result.conflictPositions = ConflictCells(vGrid, gridConfigs[vSize])
           /\ vLast.result.totalConflicts
                = Cardinality(ConflictCells(vGrid, gridConfigs[vSize]))
           /\ (vLast.result.totalConflicts = 0)
                = (ConflictCells(vGrid, gridConfigs[vSize]) = {})

\* findAllConflicts reported a value held by three cells of one row
C8_WitnessTriple ==
    /\ vLast.op = "findAllConflicts"
    /\ \E row \in Idx(gridConfigs[vSize]) :
         \E value \in 1 .. gridConfigs[vSize].maxValue :
           /\ Cardinality({c \in Idx(gridConfigs[vSize]) : At(vGrid, row, c) = value}) >= 3
           /\ {<<row, c>> : c \in {x \in Idx(gridConfigs[vSize]) : At(vGrid, row, x) = value}}
                 \subseteq vLast.result.conflictPositions

\* C9: with no clearCaches call, every findAllConflicts call returns the
\* report an uncached scan of the grid's current contents produces.
C9_NoStaleReport ==
    (vLast.op = "findAllConflicts" /\ ~vCleared)
        => vLast.result = scanConflicts(vGrid, gridConfigs[vSize])

\* a report was served from the cache after the grid had been edited away
\* from the cached contents and back
C9_WitnessCachedAfterEdits ==
    /\ vLast.op = "findAllConflicts"
    /\ ~vCleared
    /\ vLast.cached
    /\ vEdits >= 2
    /\ Cardinality(DOMAIN vCache) >= 2

\* the empty cells of a grid
EmptyCells(grid, config) == {p \in Cells(config) : At(grid, p[1], p[2]) = 0}

\* C11: a 4x4 puzzle created at easy difficulty (fillPercentage 0.6, symmetry
\* on) never has more than floor(16 * 0.4) = 6 empty cells.
C11_EasyFourByFourAtMostSixEmpty ==
    (pzPc = "done" /\ pzConfig.size = 4 /\ pzDifficulty = difficulties["easy"])
        => Cardinality(EmptyCells(pzPuzzle, pzConfig)) <= 6

\* a 4x4 easy puzzle was returned with exactly six empty cells
C11_WitnessSixEmpty ==
    /\ pzPc = "done"
    /\ pzConfig.size = 4
    /\ pzDifficulty = difficulties["easy"]
    /\ Cardinality(EmptyCells(pzPuzzle, pzConfig)) = 6

\* C12: every validateMove call, valid or not (a value outside 0..maxValue
\* included), returns as affectedCells exactly the cells other than the
\* target that share its row, its column or its box.
C12_AffectedCellsArePeers ==
    vLast.op = "validateMove"
        => vLast.result.affectedCells = Peers(<<vLast.row, vLast.col>>, gridConfigs[vSize])

InitMalformed ==
    MInit /\ PzIdle /\ WkIdle /\ WpIdle /\ BfIdle /\ EngIdle /\ VIdle /\ HIdle

SpecMalformed == InitMalformed /\ [][MalformedNext]_vars

\* a grid of the given size: an array of size rows of size integers in 0..size
WellFormed(g, size) ==
    /\ g.isArray
    /\ Len(g.rows) = size
    /\ \A r \in 1 .. Len(g.rows) :
         /\ Len(g.rows[r]) = size
         /\ \A c \in 1 .. Len(g.rows[r]) : g.rows[r][c] \in 0 .. size

\* C13: no exception escapes validateSolution or validateMove; a malformed
\* grid makes validateSolution return isValid false with a non-empty errors
\* list, and a target row that cannot be read makes validateMove return
\* isValid false with a validation_error conflict.
C13_MalformedInputReported ==
    /\ mLast.op \in {"validateSolution", "validateMove"} => ~mLast.threw
    /\ (mLast.op = "validateSolution" /\ mLast.size = 4 /\ ~WellFormed(mGrid, 4))
          => (~mLast.result.isValid /\ mLast.result.errors # <<>>)
    /\ (mLast.op = "validateMove" /\ mLast.size = 4 /\ ~readable(mGrid, mLast.row))
          => /\ ~mLast.result.isValid
             /\ \E i \in 1 .. Len(mLast.result.conflicts) :
                  mLast.result.conflicts[i].type = "validation_error"

\* C14: findAllConflicts with a supported size never throws, whatever the
\* game data (fewer rows than size, a missing or short row, a non-array).
C14_FindAllConflictsNeverThrows ==
    (mLast.op = "findAllConflicts" /\ mLast.size = 4) => ~mLast.threw

InitHints ==
    HInit /\ PzIdle /\ WkIdle /\ WpIdle /\ BfIdle /\ EngIdle /\ VIdle /\ MIdle

SpecHints == InitHints /\ [][HintNext]_vars

\* the last call had an unsupported size or a grid that is not well formed
HintArgsMalformed ==
    hLast.size \notin DOMAIN gridConfigs \/ ~WellFormed(hGrid, hLast.size)

\* the last call named a cell outside the grid
HintCellOutside ==
    hLast.size \in DOMAIN gridConfigs /\ (hLast.row >= hLast.size \/ hLast.col >= hLast.size)

\* C15: getHint and getCellHint let no exception escape; with an unsupported
\* size, a malformed grid or a cell outside the grid they return a hint of
\* type 'error' with a message, and getHint leaves the hint history as it
\* was.
C15_HintErrorsReported ==
    /\ []((hLast.op = "getHint" /\ HintArgsMalformed) => hLast.result.type = "error")
    /\ []((hLast.op = "getCellHint" /\ (HintArgsMalformed \/ HintCellOutside))
             => hLast.result.type = "error")
    /\ [][(hLast'.op = "getHint" /\ hLast'.result.type = "error")
             => hintHistory' = hintHistory]_vars

\* C16: when some empty cell has exactly one candidate, getHint at the
\* Solution level targets a cell with exactly one candidate and returns that
\* candidate as value, with technique 'nakedSingle' and confidence 1.0.
C16_SolutionHintIsNakedSingle ==
    LET config == gridConfigs[hLast.size]
        candidatesOf(q) == {v \in 1 .. config.maxValue :
                              \A p \in Peers(q, config) : At(hGrid.rows, p[1], p[2]) # v}
        single(q) == At(hGrid.rows, q[1], q[2]) = 0 /\ Cardinality(candidatesOf(q)) = 1
        solutionLevel == hLast.level = 4 \/ (hLast.level = 0 /\ currentHintLevel = 4)
    IN  (/\ hLast.op = "getHint"
         /\ hLast.size \in DOMAIN gridConfigs
         /\ WellFormed(hGrid, hLast.size)
         /\ solutionLevel
         /\ \E q \in Cells(config) : single(q))
        => /\ hLast.result.type = "solution"
           /\ single(hLast.result.targetCell)
           /\ hLast.result.value \in candidatesOf(hLast.result.targetCell)
           /\ hLast.result.technique = "nakedSingle"
           /\ hLast.result.confidence = 100

C16_WitnessLaterSingle ==
    /\ hLast.op = "getHint" /\ hLast.size = 4 /\ hLast.level = 0 /\ currentHintLevel = 4
    /\ hGrid = jsArray(Mixed4)
    /\ hLast.result.type = "solution"
    /\ hLast.result.targetCell = <<0, 2>>
    /\ hLast.result.value = 3

\* C17: currentHintLevel stays in 1..4; increaseHintLevel adds one below 4
\* and leaves 4, decreaseHintLevel subtracts one above 1 and leaves 1,
\* resetHintLevel sets 1, getHint and getCellHint leave it unchanged.
C17_HintLevelSteps ==
    /\ [](currentHintLevel \in 1 .. 4)
    /\ [][/\ hLast'.op = "increaseHintLevel"
             => currentHintLevel' = (IF currentHintLevel = 4 THEN 4 ELSE currentHintLevel + 1)
          /\ hLast'.op = "decreaseHintLevel"
             => currentHintLevel' = (IF currentHintLevel = 1 THEN 1 ELSE currentHintLevel - 1)
          /\ hLast'.op = "resetHintLevel" => currentHintLevel' = 1
          /\ hLast'.op \in {"getHint", "getCellHint", "none"}
             => currentHintLevel' = currentHintLevel]_vars

C17_WitnessIncreaseAtFour ==
    hLast.op = "increaseHintLevel" /\ currentHintLevel = 4 /\ Len(hintHistory) = 1

\* the engine has seen one generatePuzzle call, and it took the worker path
SingleWorkerRequest == Len(engRequests) = 1 /\ engRequests[1].timer # "none"

\* C18: with a single request, a generation on the worker path settles
\* exactly once: by the worker's answer if it is delivered before the 30 s
\* timer fires, else by the 'Puzzle generation timeout' rejection; a late
\* answer changes nothing, and the timer never fires after an answer was
\* delivered.
C18_SettledOnceByAnswerOrTimeout ==
    /\ [](SingleWorkerRequest =>
            /\ engRequests[1].status # "pending"
                 => engRequests[1].via \in {"worker", "Puzzle generation timeout"}
            /\ engRequests[1].timer = "cleared" => engRequests[1].via = "worker"
            /\ engRequests[1].timer = "fired"
                 => engRequests[1].via = "Puzzle generation timeout")
    /\ [][(SingleWorkerRequest /\ Len(engRequests') = 1) =>
            /\ engRequests[1].status # "pending"
                 => /\ engRequests'[1].status = engRequests[1].status
                    /\ engRequests'[1].via = engRequests[1].via
            /\ engRequests[1].timer = "cleared" => engRequests'[1].timer = "cleared"]_vars

\* C19: backtrackFill yields at least once in every 50 consecutive
\* invocations: no 50 invocations in a row go by without the zero-delay
\* await (bfCalls counts the invocations entered since the last one that
\* yielded).
C19_YieldsWithinFifty == bfCalls < YieldEvery

InitUniqueness ==
    VInit /\ PzIdle /\ WkIdle /\ WpIdle /\ BfIdle /\ EngIdle /\ MIdle /\ HIdle

SpecUniqueness == InitUniqueness /\ [][UniquenessNext]_vars

\* C20: for every well-formed grid, conflicting filled cells included,
\* checkUniqueness reports as solutionCount the number of complete grids
\* that extend the input and satisfy all row, column and box rules, capped
\* at 2, classifies the grid accordingly, and leaves the input unchanged.
C20_CountsCompletions ==
    /\ [](vLast.op = "checkUniqueness" =>
            LET count == Cardinality(Completions(vGrid, gridConfigs[vSize]))
            IN  /\ vLast.result.solutionCount = Min(2, count)
                /\ vLast.result.hasUniqueSolution = (count = 1)
                /\ vLast.result.isValid = (count > 0))
    /\ [][vLast'.op = "checkUniqueness" => vGrid' = vGrid]_vars

\* the backtrackFill call whose value loop is running
RunningFrame == bfStack[Len(bfStack)]

\* between two values of its loop a call sees the grid and the domains it
\* was entered with
LoopSeesEntryState ==
    bfPc = "loop" => /\ bfGrid = RunningFrame.entryGrid
                     /\ bfDomains = RunningFrame.entryDomains

\* no saved snapshot holds a Set object that domains holds too
NoSharedSets == \A i \in 1 .. Len(bfStack) : bfStack[i].savedSets # bfSets

\* C21: when a backtrackFill call returns false, the grid and every domain
\* are what they were when the call was entered; after each failed value
\* the chosen cell is empty again and the domains equal the snapshot taken
\* before the value was propagated, and the snapshot shares no Set with the
\* live domains.
C21_FailedCallRestoresState ==
    /\ []LoopSeesEntryState
    /\ []NoSharedSets
    /\ [][(bfPc = "loop" /\ bfPc' = "ret")
             => /\ ~bfRet'
                /\ bfGrid' = RunningFrame.entryGrid
                /\ bfDomains' = RunningFrame.entryDomains]_vars
    /\ [][(bfPc = "ret" /\ bfPc' = "loop")
             => /\ At(bfGrid', RunningFrame.cell[1], RunningFrame.cell[2]) = 0
                /\ bfDomains' = RunningFrame.savedDomains]_vars

C21_WitnessCallReturnedFalse ==
    bfPc = "ret" /\ ~bfRet /\ Len(bfStack) > 10 /\ bfSets > 0

\* the stored domain of every empty cell is its set of legal values
DomainsAreLegal ==
    bfPc # "idle" =>
        \A p \in Cells(bfConfig) :
            At(bfGrid, p[1], p[2]) = 0
                => At(bfDomains, p[1], p[2]) = Legal(bfGrid, p, bfConfig)

\* C22: at every branching step the selected cell is an empty cell with the
\* fewest legal values among the empty cells, the values tried for it are
\* exactly its legal values, and the stored domain of every empty cell
\* always equals its set of legal values.
C22_BranchesOnFewestLegalValues ==
    /\ []DomainsAreLegal
    /\ [][(bfPc \in {"call", "resume"} /\ bfPc' = "loop")
             => LET cell == bfStack'[Len(bfStack')].cell
                IN  /\ At(bfGrid, cell[1], cell[2]) = 0
                    /\ bfStack'[Len(bfStack')].values = Legal(bfGrid, cell, bfConfig)
                    /\ \A q \in Cells(bfConfig) :
                         At(bfGrid, q[1], q[2]) = 0
                            => Cardinality(Legal(bfGrid, cell, bfConfig))
                                  <= Cardinality(Legal(bfGrid, q, bfConfig))]_vars

C22_WitnessBranchOnTwoValues ==
    /\ bfPc = "loop" /\ bfConfig.size = 9
    /\ Cardinality(Legal(bfGrid, RunningFrame.cell, bfConfig)) = 2
    /\ \E q \in Cells(bfConfig) :
         At(bfGrid, q[1], q[2]) = 0 /\ Cardinality(Legal(bfGrid, q, bfConfig)) > 2

\* C23: for the difficulties with symmetry (easy, medium) the clue grid
\* createPuzzleFromSolution returns has a 180-degree symmetric pattern of
\* empty cells: a cell is empty exactly when its point reflection is.
C23_SymmetricEmptyCells ==
    (pzPc = "done" /\ pzDifficulty.symmetry) =>
        \A p \in Cells(pzConfig) :
            (At(pzPuzzle, p[1], p[2]) = 0)
                <=> (At(pzPuzzle, pzConfig.size - 1 - p[1], pzConfig.size - 1 - p[2]) = 0)

C23_WitnessSymmetricReturn ==
    /\ pzPc = "done" /\ pzDifficulty.symmetry
    /\ \E p \in Cells(pzConfig) : At(pzPuzzle, p[1], p[2]) = 0
    /\ \E p \in Cells(pzConfig) : At(pzPuzzle, p[1], p[2]) # 0

\* C24: for every size and difficulty, odd quotas such as 19 for 6x6 medium
\* included, the grid createPuzzleFromSolution returns has at most
\* floor(size * size * (1 - fillPercentage)) empty cells.
C24_EmptyCellsWithinQuota ==
    pzPc = "done" =>
        Cardinality(EmptyCells(pzPuzzle, pzConfig)) <= cellsToRemove(pzConfig, pzDifficulty)

\* the cells of a group that hold a value some other cell of the group holds
RepeatedCells(grid, group) ==
    {p \in group : \E q \in group \ {p} : At(grid, q[1], q[2]) = At(grid, p[1], p[2])}

\* the conflicts entries that name the group `at` with the given type
EntriesFor(conflicts, type, at) ==
    {i \in 1 .. Len(conflicts) : conflicts[i].type = type /\ conflicts[i].at = at}

\* one entry, listing exactly the repeated cells, when the group has a
\* repeated value; no entry otherwise
GroupReported(conflicts, grid, type, at, group) ==
    IF RepeatedCells(grid, group) = {}
    THEN EntriesFor(conflicts, type, at) = {}
    ELSE /\ Cardinality(EntriesFor(conflicts, type, at)) = 1
         /\ \A i \in EntriesFor(conflicts, type, at) :
              {conflicts[i].positions[k] : k \in 1 .. Len(conflicts[i].positions)}
                  = RepeatedCells(grid, group)

\* C25: when validateSolution rejects a complete grid, conflicts holds one
\* entry per row, column and box that has a repeated value, and the
\* positions of an entry are all the cells of the group whose value is
\* repeated in it, the first occurrence included.
C25_ConflictsListRepeatedCells ==
    (/\ vLast.op = "validateSolution"
     /\ EmptyCells(vGrid, gridConfigs[vSize]) = {}
     /\ ~vLast.result.isValid)
        => LET config == gridConfigs[vSize]
               conflicts == vLast.result.conflicts
           IN  /\ \A row \in Idx(config) :
                     GroupReported(conflicts, vGrid, "row_duplicate", <<row>>,
                                   {<<row, c>> : c \in Idx(config)})
               /\ \A col \in Idx(config) :
                     GroupReported(conflicts, vGrid, "column_duplicate", <<col>>,
                                   {<<r, col>> : r \in Idx(config)})
               /\ \A k \in 1 .. Len(boxOriginSeq(config)) :
                     LET origin == boxOriginSeq(config)[k]
                         cells == boxCellSeq(origin[1], origin[2], config)
                     IN  GroupReported(conflicts, vGrid, "box_duplicate", origin,
                                       {cells[i] : i \in 1 .. Len(cells)})

-----------------------------------------------------------------------------
(* The hint history over a game: hints, moves and clearHintHistory          *)

\* entries the history may hold in the runs that follow it
MaxTracked == 2

\* the cell the game writes between hints, and the values it writes
HintEditCells == {<<0, 0>>}
HintEditValues == {0, 1}

\* the grids, sizes and levels of the games followed
TrackedInputs == {jsArray(Partial4), jsArray(Solved4), jsArray(Mixed4), jsNull}
TrackedSizes == {4, 5}
TrackedLevelArgs == {0, 4}

HTrackedInit ==
    /\ hGrid \in TrackedInputs
    /\ currentHintLevel = hintLevels.highlight
    /\ hintHistory = <<>>
    /\ hLast = NoCall

HGetHintTracked == GetHintCall(TrackedSizes, TrackedLevelArgs, MaxTracked)

HGetCellHintTracked == GetCellHintCall(TrackedSizes, 0 .. 1, 0 .. 1)

\* the game writes a cell of the grid it passes to the hint system
SetCellCall(cells, values) ==
    /\ hLast = NoCall
    /\ \E cell \in cells, value \in values :
         /\ readable(hGrid, cell[1])
         /\ cell[2] < Len(hGrid.rows[cell[1] + 1])
         /\ At(hGrid.rows, cell[1], cell[2]) # value
         /\ hGrid' = jsArray(Put(hGrid.rows, cell[1], cell[2], value))
    /\ UNCHANGED <<currentHintLevel, hintHistory, hLast, notHint>>

HSetCell == SetCellCall(HintEditCells, HintEditValues)

\* clearHintHistory(): this.hintHistory = []
HClearHintHistory ==
    /\ hLast = NoCall
    /\ hintHistory' = <<>>
    /\ hLast' = [op |-> "clearHintHistory"]
    /\ UNCHANGED <<hGrid, currentHintLevel, notHint>>

HintHistoryNext ==
    \/ HGetHintTracked \/ HGetCellHintTracked
    \/ HIncreaseHintLevel \/ HDecreaseHintLevel \/ HResetHintLevel
    \/ HSetCell \/ HClearHintHistory
    \/ HDiscard

InitHintHistory ==
    HTrackedInit /\ PzIdle /\ WkIdle /\ WpIdle /\ BfIdle /\ EngIdle /\ VIdle /\ MIdle

SpecHintHistory == InitHintHistory /\ [][HintHistoryNext]_vars

\* C26: between two clearHintHistory calls the history is append-only: a
\* getHint call that returns a hint built from a move appends exactly one
\* entry, holding that hint, the level used and the hash of the grid as it
\* was at the call; entries stay in call order and later grid changes do
\* not alter them; a getHint that returns no_moves or error, getCellHint and
\* the level operations append nothing.
C26_HistoryAppendOnly ==
    [][IF hLast'.op = "clearHintHistory" THEN hintHistory' = <<>>
       ELSE IF hLast'.op = "getHint" /\ hLast'.result.type \notin {"no_moves", "error"}
       THEN hintHistory'
              = Append(hintHistory,
                       [hint |-> hLast'.result,
                        level |-> IF hLast'.level = 0 THEN currentHintLevel ELSE hLast'.level,
                        gridState |-> hashGrid(hGrid.rows)])
       ELSE hintHistory' = hintHistory]_vars

C26_WitnessTwoEntriesTwoGrids ==
    /\ Len(hintHistory) = 2
    /\ hintHistory[1].gridState # hintHistory[2].gridState
    /\ hintHistory[2].gridState # hashGrid(hGrid.rows)
    /\ hintHistory[1].level # hintHistory[2].level

-----------------------------------------------------------------------------
(* The technique finders of SudokuHints                                     *)

\* groupIndex is written as a tuple: <<row>>, <<col>> or <<boxRow, boxCol>>
getGroupCells(config, groupType, groupIndex) ==
    IF groupType = "row"
    THEN AsSeq([c \in 1 .. config.size |-> <<groupIndex[1], c - 1>>])
    ELSE IF groupType = "column"
    THEN AsSeq([r \in 1 .. config.size |-> <<r - 1, groupIndex[1]>>])
    ELSE IF groupType = "box"
    THEN AsSeq([k \in 1 .. (config.boxHeight * config.boxWidth) |->
                   <<groupIndex[1] + ((k - 1) \div config.boxWidth),
                     groupIndex[2] + ((k - 1) % config.boxWidth)>>])
    ELSE <<>>

\* Array.prototype.includes
includes(array, value) == \E i \in 1 .. Len(array) : array[i] = value

findHiddenSinglesInGroup(grid, config, groupType, groupIndex) ==
    LET cells == getGroupCells(config, groupType, groupIndex)
        possible(value) ==
            LET holds(q) == /\ At(grid, q[1], q[2]) = 0
                            /\ includes(getPossibleValues(grid, q[1], q[2], config), value)
            IN  SelectSeq(cells, holds)
        single(value) == Len(possible(value)) = 1
        values == SelectSeq(AsSeq([v \in 1 .. config.maxValue |-> v]), single)
    IN  AsSeq([i \in 1 .. Len(values) |->
                  [position |-> possible(values[i])[1], value |-> values[i],
                   technique |-> "hiddenSingle",
                   groupType |-> groupType, groupIndex |-> groupIndex]])

\* the groups in the order the three loops visit them
allGroups(config) ==
    AsSeq([r \in 1 .. config.size |-> <<"row", <<r - 1>>>>])
    \o AsSeq([c \in 1 .. config.size |-> <<"column", <<c - 1>>>>])
    \o AsSeq([k \in 1 .. Len(boxOriginSeq(config)) |-> <<"box", boxOriginSeq(config)[k]>>])

\* a findHiddenSingles that stops after the row loop
findHiddenSinglesRowsOnly(grid, config) ==
    Flatten(AsSeq([r \in 1 .. config.size |->
                      findHiddenSinglesInGroup(grid, config, "row", <<r - 1>>)]))

findHiddenSingles(grid, config) ==
    Flatten(AsSeq([k \in 1 .. Len(allGroups(config)) |->
                      findHiddenSinglesInGroup(grid, config,
                                               allGroups(config)[k][1], allGroups(config)[k][2])]))

arraysEqual(arr1, arr2) ==
    Len(arr1) = Len(arr2) /\ \A idx \in 1 .. Len(arr1) : arr1[idx] = arr2[idx]

\* a findEliminationTargets that does not skip the two cells of the pair
findEliminationTargetsWithPair(cells, pairCells, values, grid, config) ==
    LET eliminatable(q) ==
            LET shared(v) == includes(values, v)
            IN  SelectSeq(getPossibleValues(grid, q[1], q[2], config), shared)
        target(q) == At(grid, q[1], q[2]) = 0 /\ Len(eliminatable(q)) > 0
        hits == SelectSeq(cells, target)
    IN  AsSeq([i \in 1 .. Len(hits) |->
                  [position |-> hits[i], eliminatedValues |-> eliminatable(hits[i])]])

findEliminationTargets(cells, pairCells, values, grid, config) ==
    LET eliminatable(q) ==
            LET shared(v) == includes(values, v)
            IN  SelectSeq(getPossibleValues(grid, q[1], q[2], config), shared)
        target(q) == /\ ~includes(pairCells, q)
                     /\ At(grid, q[1], q[2]) = 0
                     /\ Len(eliminatable(q)) > 0
        hits == SelectSeq(cells, target)
    IN  AsSeq([i \in 1 .. Len(hits) |->
                  [position |-> hits[i], eliminatedValues |-> eliminatable(hits[i])]])

findNakedPairsInGroup(grid, config, groupType, groupIndex) ==
    LET cells == getGroupCells(config, groupType, groupIndex)
        empty(q) == At(grid, q[1], q[2]) = 0
        emptyCells == SelectSeq(cells, empty)
        candidates(i) == getPossibleValues(grid, emptyCells[i][1], emptyCells[i][2], config)
        n == Len(emptyCells)
        \* the index pairs (i, j), i < j, in the order of the two loops
        pairs == AsSeq([k \in 1 .. (n * n) |-> <<((k - 1) \div n) + 1, ((k - 1) % n) + 1>>])
        isPair(ij) == /\ ij[1] < ij[2]
                      /\ Len(candidates(ij[1])) = 2
                      /\ Len(candidates(ij[2])) = 2
                      /\ arraysEqual(candidates(ij[1]), candidates(ij[2]))
        hits == SelectSeq(pairs, isPair)
    IN  AsSeq([k \in 1 .. Len(hits) |->
                  [positions |-> <<emptyCells[hits[k][1]], emptyCells[hits[k][2]]>>,
                   values |-> candidates(hits[k][1]),
                   technique |-> "nakedPair",
                   groupType |-> groupType, groupIndex |-> groupIndex,
                   eliminationTargets |->
                       findEliminationTargets(cells,
                           <<emptyCells[hits[k][1]], emptyCells[hits[k][2]]>>,
                           candidates(hits[k][1]), grid, config)]])

findNakedPairs(grid, config) ==
    Flatten(AsSeq([k \in 1 .. Len(allGroups(config)) |->
                      findNakedPairsInGroup(grid, config,
                                            allGroups(config)[k][1], allGroups(config)[k][2])]))

\* the grids the finders are run on, and the cells and values the game
\* writes between two runs
TechniqueInputs ==
    {jsArray(Partial4), jsArray(Solved4), jsArray(Mixed4), jsArray(Stuck4),
     jsArray(createEmptyGrid(4)), jsArray(Mixed6)}
TechniqueEditCells == {<<0, 0>>, <<1, 1>>, <<3, 2>>}
TechniqueEditValues == {0, 1, 3}

\* the configuration of the size the game plays hGrid with
hConfig == gridConfigs[Len(hGrid.rows)]

HTechniqueInit ==
    /\ hGrid \in TechniqueInputs
    /\ currentHintLevel = hintLevels.highlight
    /\ hintHistory = <<>>
    /\ hLast = NoCall

HSetCellTechnique == SetCellCall(TechniqueEditCells, TechniqueEditValues)

HAnalyzePossibleMoves ==
    /\ hLast = NoCall
    /\ hLast' = [op |-> "analyzePossibleMoves",
                 result |-> analyzePossibleMoves(hGrid.rows, hConfig)]
    /\ UNCHANGED <<hGrid, currentHintLevel, hintHistory, notHint>>

HFindHiddenSingles ==
    /\ hLast = NoCall
    /\ hLast' = [op |-> "findHiddenSingles",
                 result |-> findHiddenSingles(hGrid.rows, hConfig)]
    /\ UNCHANGED <<hGrid, currentHintLevel, hintHistory, notHint>>

HFindNakedPairs ==
    /\ hLast = NoCall
    /\ hLast' = [op |-> "findNakedPairs",
                 result |-> findNakedPairs(hGrid.rows, hConfig)]
    /\ UNCHANGED <<hGrid, currentHintLevel, hintHistory, notHint>>

TechniquesNext ==
    \/ HAnalyzePossibleMoves \/ HFindHiddenSingles \/ HFindNakedPairs
    \/ HSetCellTechnique \/ HDiscard

InitTechniques ==
    HTechniqueInit /\ PzIdle /\ WkIdle /\ WpIdle /\ BfIdle /\ EngIdle /\ VIdle /\ MIdle

SpecTechniques == InitTechniques /\ [][TechniquesNext]_vars

\* the values that no cell sharing a row, column or box with q holds, for
\* an empty q
CandidateSet(grid, q, config) ==
    IF At(grid, q[1], q[2]) # 0 THEN {}
    ELSE {v \in 1 .. config.maxValue : \A p \in Peers(q, config) : At(grid, p[1], p[2]) # v}

\* q is the only cell of the group that can take value v
OnlyPlaceIn(grid, group, q, v, config) ==
    {p \in group : v \in CandidateSet(grid, p, config)} = {q}

\* the (cell, value) pairs that are hidden singles of a row, column or box
HiddenSinglePairs(grid, config) ==
    {qv \in Cells(config) \X (1 .. config.maxValue) :
        /\ qv[2] \in CandidateSet(grid, qv[1], config)
        /\ \/ OnlyPlaceIn(grid, RowCells(qv[1][1], config), qv[1], qv[2], config)
           \/ OnlyPlaceIn(grid, ColCells(qv[1][2], config), qv[1], qv[2], config)
           \/ OnlyPlaceIn(grid, BoxCells(boxRowOf(qv[1][1], config), boxColOf(qv[1][2], config),
                                         config), qv[1], qv[2], config)}

\* C27: the (cell, value) pairs analyzePossibleMoves tags 'hiddenSingle' are
\* the pairs findHiddenSingles reports, and both are exactly the pairs where
\* the value is a candidate of the empty cell and the cell is the only empty
\* cell of its row, or of its column, or of its box, that can take the value.
C27_HiddenSinglesAgree ==
    /\ hLast.op = "analyzePossibleMoves"
         => {<<hLast.result[i].position, hLast.result[i].value>> :
                i \in {j \in 1 .. Len(hLast.result) :
                          includes(hLast.result[j].techniques, "hiddenSingle")}}
              = HiddenSinglePairs(hGrid.rows, hConfig)
    /\ hLast.op = "findHiddenSingles"
         => {<<hLast.result[i].position, hLast.result[i].value>> : i \in 1 .. Len(hLast.result)}
              = HiddenSinglePairs(hGrid.rows, hConfig)

C27_WitnessColumnOnlySingle ==
    /\ hLast.op = "findHiddenSingles"
    /\ \E i \in 1 .. Len(hLast.result) :
         LET q == hLast.result[i].position
             v == hLast.result[i].value
         IN  /\ hLast.result[i].groupType = "column"
             /\ Cardinality(CandidateSet(hGrid.rows, q, hConfig)) > 1
             /\ ~OnlyPlaceIn(hGrid.rows, RowCells(q[1], hConfig), q, v, hConfig)

\* the cell sets of the groups, by the names the finders give them
GroupKeys(config) ==
    {<<"row", <<r>>>> : r \in Idx(config)}
    \cup {<<"column", <<c>>>> : c \in Idx(config)}
    \cup {<<"box", o>> : o \in BoxOrigins(config)}

GroupOf(key, config) ==
    IF key[1] = "row" THEN RowCells(key[2][1], config)
    ELSE IF key[1] = "column" THEN ColCells(key[2][1], config)
    ELSE BoxCells(key[2][1], key[2][2], config)

ToSet(array) == {array[i] : i \in 1 .. Len(array)}

\* what a naked pair {p, q} of a group is to be reported as
ExpectedPair(grid, key, p, q, config) ==
    [positions |-> {p, q},
     values |-> CandidateSet(grid, p, config),
     group |-> key,
     eliminationTargets |->
        {[position |-> t,
          eliminatedValues |-> CandidateSet(grid, t, config) \cap CandidateSet(grid, p, config)] :
            t \in {u \in GroupOf(key, config) \ {p, q} :
                      /\ At(grid, u[1], u[2]) = 0
                      /\ CandidateSet(grid, u, config) \cap CandidateSet(grid, p, config) # {}}}]

ExpectedPairs(grid, config) ==
    {ExpectedPair(grid, kpq[1], kpq[2], kpq[3], config) :
        kpq \in {x \in GroupKeys(config) \X Cells(config) \X Cells(config) :
                    /\ x[2] \in GroupOf(x[1], config) /\ x[3] \in GroupOf(x[1], config)
                    /\ x[2] # x[3]
                    /\ At(grid, x[2][1], x[2][2]) = 0 /\ At(grid, x[3][1], x[3][2]) = 0
                    /\ Cardinality(CandidateSet(grid, x[2], config)) = 2
                    /\ CandidateSet(grid, x[2], config) = CandidateSet(grid, x[3], config)}}

\* a reported pair with its arrays read as sets
ReportedPair(entry) ==
    [positions |-> ToSet(entry.positions),
     values |-> ToSet(entry.values),
     group |-> <<entry.groupType, entry.groupIndex>>,
     eliminationTargets |->
        {[position |-> entry.eliminationTargets[i].position,
          eliminatedValues |-> ToSet(entry.eliminationTargets[i].eliminatedValues)] :
            i \in 1 .. Len(entry.eliminationTargets)}]

NakedPairsAsExpected ==
    hLast.op = "findNakedPairs"
        => /\ {ReportedPair(hLast.result[i]) : i \in 1 .. Len(hLast.result)}
                 = ExpectedPairs(hGrid.rows, hConfig)
           /\ Len(hLast.result) = Cardinality(ExpectedPairs(hGrid.rows, hConfig))
           /\ \A i \in 1 .. Len(hLast.result) :
                /\ Len(hLast.result[i].values) = 2
                /\ Len(hLast.result[i].eliminationTargets)
                     = Cardinality(ToSet(hLast.result[i].eliminationTargets))
                /\ \A k \in 1 .. Len(hLast.result[i].eliminationTargets) :
                     Len(hLast.result[i].eliminationTargets[k].eliminatedValues)
                       = Cardinality(ToSet(hLast.result[i].eliminationTargets[k].eliminatedValues))

\* C28: findNakedPairs reports a pair for a group exactly when two distinct
\* empty cells of the group have the same candidate set of size 2; its
\* eliminationTargets are exactly the other empty cells of the group that
\* have at least one of the two values as a candidate, each listed with
\* exactly those shared values; the grid is left unchanged.
C28_NakedPairsAndTargets ==
    /\ []NakedPairsAsExpected
    /\ [][hLast'.op = "findNakedPairs" => hGrid' = hGrid]_vars

C28_WitnessPairWithTarget ==
    /\ hLast.op = "findNakedPairs"
    /\ \E i \in 1 .. Len(hLast.result) :
         /\ Len(hLast.result[i].eliminationTargets) > 0
         /\ \E k \in 1 .. Len(hLast.result[i].eliminationTargets) :
              Len(hLast.result[i].eliminationTargets[k].eliminatedValues) = 1
    /\ \E i \in 1 .. Len(hLast.result) : hLast.result[i].groupType = "box"

\* the last call was a getHint on a well-formed grid that returned a hint
\* carrying a value
ValueHintReturned ==
    /\ hLast.op = "getHint"
    /\ hLast.result.type \in {"technique", "solution"}
    /\ WellFormed(hGrid, hLast.size)

\* C29: on a grid with exactly one completion, the value getHint returns at
\* Solution level (and at Technique level) is the value the completion has
\* in the target cell.
C29_HintValueIsCompletionValue ==
    ValueHintReturned =>
        LET completions == Completions(hGrid.rows, gridConfigs[hLast.size])
        IN  Cardinality(completions) = 1
               => \A solution \in completions :
                     hLast.result.value
                        = At(solution, hLast.result.targetCell[1], hLast.result.targetCell[2])

\* C30: whenever a getHint hint at Technique or Solution level names the
\* technique 'nakedSingle', the target cell has exactly one candidate, and
\* a Solution hint that names it has confidence 1.0.
C30_NakedSingleHasOneCandidate ==
    (ValueHintReturned /\ hLast.result.technique = "nakedSingle")
        => /\ Cardinality(CandidateSet(hGrid.rows, hLast.result.targetCell,
                                       gridConfigs[hLast.size])) = 1
           /\ hLast.result.type = "solution" => hLast.result.confidence = 100

====
